---- MODULE Spec2Model ----
\* A model of megatron_patch/model/idefics2/perceiver_transformer.py:
\* the gated MLP, the dense attention core, the cross-attention layer with its
\* inference key/value cache, the layer-count and layer-type helpers and the
\* top-level Idefics2PerceiverParallelTransformer.forward.
\* Tensors are modelled by their shapes (sequences of naturals) and, where a
\* claim is about data flow, by a provenance record.
EXTENDS Integers, Sequences, FiniteSets, TLC

\* ---------------------------------------------------------------------------
\* Bounds of the model
\* ---------------------------------------------------------------------------
MaxSeq == 2
MaxBatch == 2
MaxWidth == 4
MaxWorld == 2
\* forward calls of the attention modules on one inference_params
MaxAttnCalls == 2
\* largest max_sequence_length / max_batch_size of an inference_params
MaxCacheSeq == 4
MaxCacheBatch == 2
\* largest pipeline-model-parallel world size and largest layer counts
MaxPipeline == 3
MaxNumLayers == 9
MaxRetroLayers == 20
\* largest number of layers of a transformer stack
MaxFwdLayers == 2
\* largest config.num_layers and virtual pipeline size of the constructions
MaxStripeLayers == 8
MaxChunks == 4
\* longest key of a saved state dictionary, in name segments
MaxKeyLen == 4
\* forward calls followed on one transformer when counting microbatches
MaxMicrobatchCalls == 4

VARIABLES
    \* Idefics2ParallelMLP: the constructed module, the input shape, the result
    mlp, mlp_x, mlp_ret,
    \* CoreAttention: the constructed module, the arguments of the call, the result
    core, core_call, core_ret,
    \* ParallelAttention: the constructed attention modules (by layer number), the
    \* caller's inference_params structure, the result of the last forward call,
    \* the number of calls made, the key_value_memory_dict before the last call
    \* and, per layer number, what the calls so far wrote
    \* (attn_nondecreasing: the caller never lowered an offset so far)
    attn, inference_params, attn_ret, attn_calls, attn_pre, attn_track,
    attn_nondecreasing,
    \* _get_num_layers: the arguments and parallel state of the call, the result
    gnl_call, gnl_ret,
    \* retro layer numbers and _get_layer_type: the arguments of build_layer, the
    \* retro_layer_numbers of the constructor, the result
    glt_call, retro_layer_numbers, glt_ret,
    \* Idefics2PerceiverParallelTransformer: the constructed object, its mutable
    \* attributes, the frame of the running forward call, the layer calls it
    \* made, its result, the number of calls, the caller's inference_params,
    \* and for every forward call so far its settings and how far it got
    transformer, input_tensor, microbatch_count, num_microbatches_in_previous_step,
    fwd, fwd_log, fwd_ret, fwd_calls, fwd_inference_params, fwd_history,
    \* The construction of the model chunks of a pipeline: the configuration,
    \* per pipeline rank the transformers built so far (one per virtual rank),
    \* and the arguments and the result of the last NoopTransformerLayer call
    build_setup, chunks, noop_call, noop_ret,
    \* load_state_dict: the caller's dictionary object, the arguments and the
    \* settings of the call, what was handed to the standard loading, the result
    state_dict, load_call, load_super, load_ret,
    \* DropPath: the module (drop_prob, training), the argument and the random
    \* numbers of the last forward call, its result
    dp_module, dp_call, dp_ret,
    \* FlashSelfAttention: the module (causal, dropout_p, training), the
    \* arguments of the last forward call, the arguments it handed to the fused
    \* kernel, its result
    flash_module, flash_call, flash_kernel, flash_ret,
    \* ParallelTransformerLayer: the constructed layer, the arguments of the
    \* last forward call, the steps the call went through, its result
    ptl, ptl_call, ptl_trace, ptl_ret

mlpVars == <<mlp, mlp_x, mlp_ret>>

coreVars == <<core, core_call, core_ret>>

attnVars ==
    <<attn, inference_params, attn_ret, attn_calls, attn_pre, attn_track,
      attn_nondecreasing>>

gnlVars == <<gnl_call, gnl_ret>>

gltVars == <<glt_call, retro_layer_numbers, glt_ret>>

fwdVars ==
    << transformer, input_tensor, microbatch_count, num_microbatches_in_previous_step,
       fwd, fwd_log, fwd_ret, fwd_calls, fwd_inference_params, fwd_history >>

buildVars == << build_setup, chunks, noop_call, noop_ret >>

\* The components added after the forward pass.
loadVars == << state_dict, load_call, load_super, load_ret >>

dropVars == << dp_module, dp_call, dp_ret >>

laterVars == << buildVars, loadVars, dropVars >>

flashVars == << flash_module, flash_call, flash_kernel, flash_ret >>

ptlVars == << ptl, ptl_call, ptl_trace, ptl_ret >>

lastVars == << flashVars, ptlVars >>

vars == <<mlpVars, coreVars, attnVars, gnlVars, gltVars, fwdVars, laterVars, lastVars>>

\* What the operations of one component leave alone: the other components.
notMlpVars == <<coreVars, attnVars, gnlVars, gltVars, fwdVars, laterVars, lastVars>>

notCoreVars == <<mlpVars, attnVars, gnlVars, gltVars, fwdVars, laterVars, lastVars>>

notAttnVars == <<mlpVars, coreVars, gnlVars, gltVars, fwdVars, laterVars, lastVars>>

notGnlVars == <<mlpVars, coreVars, attnVars, gltVars, fwdVars, laterVars, lastVars>>

notGltVars == <<mlpVars, coreVars, attnVars, gnlVars, fwdVars, laterVars, lastVars>>

notFwdVars == <<mlpVars, coreVars, attnVars, gnlVars, gltVars, laterVars, lastVars>>

earlierVars == <<mlpVars, coreVars, attnVars, gnlVars, gltVars, fwdVars>>

notBuildVars == << earlierVars, loadVars, dropVars, lastVars >>

notLoadVars == << earlierVars, buildVars, dropVars, lastVars >>

notDropVars == << earlierVars, buildVars, loadVars, lastVars >>

notFlashVars == << earlierVars, laterVars, ptlVars >>

notPtlVars == << earlierVars, laterVars, flashVars >>

\* ---------------------------------------------------------------------------
\* Shared helpers
\* ---------------------------------------------------------------------------
\* The value of a name that has not been assigned / of a call not yet made.
NoShape == <<>>

\* A call result: status "ok" or the name of the exception raised.
Ok(shape) == [status |-> "ok", shape |-> shape]

Raise(exc) == [status |-> exc, shape |-> NoShape]

NotCalled == [status |-> "not_called", shape |-> NoShape]

\* shape[:-1] + (w,)
WithLast(shape, w) == [shape EXCEPT ![Len(shape)] = w]

Last(shape) == shape[Len(shape)]

CeilDiv(a, b) == (a + b - 1) \div b

\* ---------------------------------------------------------------------------
\* Idefics2ParallelMLP
\* ---------------------------------------------------------------------------
\* The nonlinearity chosen by the if/elif chain of __init__.
MLPActivationFunc(args) ==
    IF args.openai_gelu THEN "openai_gelu"
    ELSE IF args.onnx_safe THEN "erf_gelu"
    ELSE IF args.swiglu THEN "swiglu"
    ELSE IF args.squared_relu THEN "squared_relu"
    ELSE "gelu"

\* A variant that takes the flag from args on every branch.
MLPBiasGeluFusion_anyBranch(args) == args.bias_gelu_fusion

\* bias_gelu_fusion is False unless the final else branch (plain GELU) is taken.
MLPBiasGeluFusion(args) ==
    IF MLPActivationFunc(args) = "gelu" THEN args.bias_gelu_fusion ELSE FALSE

\* The width dense_h_to_4h is built with: ffn_hidden_size, doubled when gated.
MLPFirstWidth(config) ==
    IF config.gated_linear_unit
    THEN config.ffn_hidden_size * 2
    ELSE config.ffn_hidden_size

\* Idefics2ParallelMLP.__init__; world is the tensor-model-parallel world size.
\* ColumnParallelLinear keeps output_size / world columns per partition,
\* RowParallelLinear expects input_size / world columns per partition.
Idefics2ParallelMLP_init(config, args, world) ==
    [ add_bias         |-> config.add_bias_linear,
      h_to_4h_in       |-> config.input_size,
      h_to_4h_out      |-> MLPFirstWidth(config) \div world,
      bias_gelu_fusion |-> MLPBiasGeluFusion(args),
      activation_func  |-> MLPActivationFunc(args),
      swiglu           |-> args.swiglu,
      h4_to_h_in       |-> config.ffn_hidden_size \div world,
      h4_to_h_out      |-> config.output_size ]

\* The divisibility the two parallel linears assert at construction.
MLPConstructible(config, world) ==
    /\ MLPFirstWidth(config) % world = 0
    /\ config.ffn_hidden_size % world = 0

\* The width the activation leaves on the last axis, or 0 when it raises.
\* swiglu: torch.chunk(x, 2, dim=-1) cuts chunks of ceil(w/2) columns; with one
\* column there is a single chunk and x[1] is an IndexError; the product of the
\* two chunks needs equal widths (or a width-1 chunk, which broadcasts).
SwigluWidth(w) ==
    LET c0 == CeilDiv(w, 2)
        c1 == w - c0
    IN  IF c1 = 0 THEN 0
        ELSE IF c0 = c1 \/ c1 = 1 THEN c0
        ELSE 0

ActivationWidth(func, w) ==
    IF func = "swiglu" THEN SwigluWidth(w) ELSE w

\* Idefics2ParallelMLP.forward on an input of shape x.
Idefics2ParallelMLP_forward(m, x) ==
    IF Last(x) # m.h_to_4h_in THEN Raise("RuntimeError")
    ELSE IF m.bias_gelu_fusion /\ ~m.add_bias THEN Raise("AssertionError")
    ELSE IF m.bias_gelu_fusion /\ m.activation_func # "gelu"
         THEN Raise("AssertionError")
    ELSE LET w == IF m.bias_gelu_fusion THEN m.h_to_4h_out
                  ELSE ActivationWidth(m.activation_func, m.h_to_4h_out)
         IN  IF w = 0
             THEN Raise(IF m.h_to_4h_out = 1 THEN "IndexError" ELSE "RuntimeError")
             ELSE IF w # m.h4_to_h_in THEN Raise("RuntimeError")
             ELSE Ok(WithLast(x, m.h4_to_h_out))

MLPArgs ==
    [ openai_gelu : BOOLEAN, onnx_safe : BOOLEAN, swiglu : BOOLEAN,
      squared_relu : BOOLEAN, bias_gelu_fusion : BOOLEAN ]

MLPConfigs ==
    [ input_size : 1..2, ffn_hidden_size : 1..MaxWidth, output_size : 1..2,
      gated_linear_unit : BOOLEAN, add_bias_linear : BOOLEAN ]

MLPInit ==
    /\ \E config \in MLPConfigs, args \in MLPArgs, world \in 1..MaxWorld :
          /\ MLPConstructible(config, world)
          /\ mlp = [ m |-> Idefics2ParallelMLP_init(config, args, world),
                     config |-> config, args |-> args, world |-> world ]
    /\ mlp_x = NoShape
    /\ mlp_ret = NotCalled

\* One call of forward on a (S, B, I) input.
MLPForward ==
    /\ mlp_ret.status = "not_called"
    /\ \E s \in 1..MaxSeq, b \in 1..MaxBatch, i \in 1..2 :
          /\ mlp_x' = <<s, b, i>>
          /\ mlp_ret' = Idefics2ParallelMLP_forward(mlp.m, <<s, b, i>>)
    /\ UNCHANGED mlp
    /\ UNCHANGED notMlpVars

MLPNext == MLPForward

\* ---------------------------------------------------------------------------
\* CoreAttention
\* ---------------------------------------------------------------------------
\* attention_mask = None
NoMask == NoShape

\* CoreAttention.__init__: per-partition sizes (core.utils.divide is exact).
CoreAttention_init(config, world) ==
    LET projection_size == config.kv_channels * config.num_attention_heads
    IN  [ hidden_size_per_partition         |-> projection_size \div world,
          hidden_size_per_attention_head    |-> projection_size \div config.num_attention_heads,
          num_attention_heads_per_partition |-> config.num_attention_heads \div world ]

\* The shape the mask is compared with: (b, 1, sq, sk).
CoreExpectedMask(query, key) == <<query[2], 1, query[1], key[1]>>

Numel(shape) ==
    IF Len(shape) = 0 THEN 1
    ELSE LET RECURSIVE Prod(_)
             Prod(i) == IF i = 0 THEN 1 ELSE shape[i] * Prod(i - 1)
         IN  Prod(Len(shape))

\* A variant that compares the last two axes only (a broadcastable mask passes).
CoreMaskCheck_lastAxesOnly(query, key, attention_mask) ==
    IF attention_mask = NoMask THEN "UnboundLocalError"
    ELSE IF Len(attention_mask) < 2 THEN "ValueError"
    ELSE IF attention_mask[Len(attention_mask) - 1] # query[1]
            \/ attention_mask[Len(attention_mask)] # key[1] THEN "ValueError"
    ELSE "ok"

\* The mask test of forward: "ok", or the exception the mask leads to.
\* With attention_mask None the name attn_weights is never bound and the softmax
\* line reads an unbound local.
CoreMaskCheck(query, key, attention_mask) ==
    IF attention_mask = NoMask THEN "UnboundLocalError"
    ELSE IF attention_mask # CoreExpectedMask(query, key) THEN "ValueError"
    ELSE "ok"

\* CoreAttention.forward on query [sq, b, np, hn], key/value [sk, b, n, hn].
CoreAttention_forward(ca, query, key, value, attention_mask) ==
    LET b   == query[2]
        np  == query[3]
        sq  == query[1]
        sk  == key[1]
        hn  == Numel(query) \div (sq * b * np)
        \* key_layer.view(sk, b * np, -1)
        kOk == Numel(key) % (sk * b * np) = 0
        khn == Numel(key) \div (sk * b * np)
        chk == CoreMaskCheck(query, key, attention_mask)
        \* context: output_size = (vb, vn, sq, vhn)
        vb  == value[2]
        vn  == value[3]
        vhn == value[4]
        pOk == (b * np * sq * sk) % (vb * vn * sq) = 0
        pk  == (b * np * sq * sk) \div (vb * vn * sq)
    IN  IF ~kOk \/ khn # hn THEN Raise("RuntimeError")
        ELSE IF chk # "ok" THEN Raise(chk)
        ELSE IF ~pOk \/ pk # value[1] THEN Raise("RuntimeError")
        ELSE IF vn * vhn # ca.hidden_size_per_partition THEN Raise("RuntimeError")
        ELSE Ok(<<sq, vb, ca.hidden_size_per_partition>>)

\* The exact divisions core.utils.divide asserts at construction.
CoreConstructible(config, world) ==
    /\ (config.kv_channels * config.num_attention_heads) % world = 0
    /\ config.num_attention_heads % world = 0

CoreConfigs ==
    [ kv_channels : 1..2, num_attention_heads : {2, 4} ]

\* The masks a caller may hand over: None, the expected shape, one axis off
\* by one, the head axis not 1, and a mask of another rank.
CoreMasks(b, sq, sk) ==
    { NoMask, <<b, 1, sq, sk>>, <<b + 1, 1, sq, sk>>, <<b, 1, sq + 1, sk>>,
      <<b, 1, sq, sk + 1>>, <<b, 2, sq, sk>>, <<b, sq, sk>>, <<b, 1, sk, sq>> }

CoreInit ==
    /\ \E config \in CoreConfigs, world \in 1..MaxWorld :
          /\ CoreConstructible(config, world)
          /\ core = CoreAttention_init(config, world)
    /\ core_call = [ query |-> NoShape, key |-> NoShape, value |-> NoShape,
                     attention_mask |-> NoMask ]
    /\ core_ret = NotCalled

\* One call of CoreAttention.forward; kn is the head count of key and value.
CoreForward ==
    /\ core_ret.status = "not_called"
    /\ \E b \in 1..MaxBatch, sq \in 1..MaxSeq, sk \in 1..MaxSeq + 1,
          kn \in {core.num_attention_heads_per_partition, 1} :
          \E m \in CoreMasks(b, sq, sk) :
             LET hn == core.hidden_size_per_attention_head
                 q  == <<sq, b, core.num_attention_heads_per_partition, hn>>
                 k  == <<sk, b, kn, hn>>
             IN  /\ core_call' = [ query |-> q, key |-> k, value |-> k,
                                   attention_mask |-> m ]
                 /\ core_ret' = CoreAttention_forward(core, q, k, k, m)
    /\ UNCHANGED core
    /\ UNCHANGED notCoreVars

CoreNext == CoreForward

\* ---------------------------------------------------------------------------
\* FlashSelfAttention
\* ---------------------------------------------------------------------------
\* FlashSelfAttention.forward on q [b, sq, np, hn], k/v [b, sk, n, hn] and a
\* padding mask [b, sk] (or None): unpad_input needs a mask of the keys' batch
\* and length, the kernel needs the key heads to divide the query heads.
FlashSelfAttention_forward(q, k, v, attention_mask) ==
    IF attention_mask # NoMask /\ attention_mask # <<k[1], k[2]>>
    THEN Raise("RuntimeError")
    ELSE IF attention_mask = NoMask /\ k[2] # q[2] THEN Raise("RuntimeError")
    ELSE IF q[3] % k[3] # 0 \/ k # v \/ q[4] # k[4] THEN Raise("RuntimeError")
    ELSE Ok(q)

\* ---------------------------------------------------------------------------
\* ParallelAttention and the inference key/value cache
\* ---------------------------------------------------------------------------
Max(a, b) == IF a >= b THEN a ELSE b

Min(a, b) == IF a <= b THEN a ELSE b

\* ParallelAttention.__init__ (attention_type is always cross_attn).
ParallelAttention_init(config, args, layer_number, world) ==
    LET query_projection_size == config.kv_channels * config.num_attention_heads
        np == config.num_attention_heads \div world
    IN  [ layer_number |-> Max(1, layer_number),
          use_flash_attn |-> args.use_flash_attn,
          text_hidden_size |-> config.text_hidden_size,
          hidden_size_per_attention_head |->
              query_projection_size \div config.num_attention_heads,
          hidden_size_per_attention_head_query |->
              query_projection_size \div config.num_attention_heads,
          hidden_size_per_attention_head_kv |->
              query_projection_size \div config.num_attention_heads,
          num_attention_heads_per_partition |-> np,
          num_query_groups_per_partition |->
              IF args.group_query_attention
              THEN args.num_query_groups \div world
              ELSE np,
          query_out |-> query_projection_size \div world,
          key_value_out |-> (2 * query_projection_size) \div world,
          core_attention |-> CoreAttention_init(config, world),
          dense_in |-> query_projection_size \div world,
          dense_out |-> config.text_hidden_size ]

\* What __init__ asserts or raises on: exact divisions by the world size.
AttnConstructible(config, args, world) ==
    /\ config.num_attention_heads % world = 0
    /\ (config.kv_channels * config.num_attention_heads) % world = 0
    /\ args.group_query_attention => args.num_query_groups % world = 0

\* A layer number with no entry in key_value_memory_dict.
NoEntry == [ id |-> 0, shape |-> NoShape, key |-> <<>>, value |-> <<>> ]

\* _allocate_memory: torch.empty of the given shape. Cells hold the number of the
\* call that wrote them; 0 is the uninitialised content of torch.empty.
AllocateMemory(inference_max_sequence_len, batch_size) ==
    [ r \in 1..inference_max_sequence_len |-> [ c \in 1..batch_size |-> 0 ] ]

AllocateShape(m, inference_max_sequence_len, batch_size, num_attention_heads) ==
    << inference_max_sequence_len, batch_size, num_attention_heads,
       m.hidden_size_per_attention_head_query >>

\* A variant that allocates on every call.
NeedsAllocation_always(dict, layer_number) == TRUE

\* layer_number not in key_value_memory_dict
NeedsAllocation(dict, layer_number) == dict[layer_number].id = 0

\* Lines 590-607: the entry of this layer number after the pre-allocation step.
\* id names the allocation (the pair of tensors), so a replaced pair shows.
PreAllocate(m, ip, id) ==
    IF NeedsAllocation(ip.key_value_memory_dict, m.layer_number)
    THEN [ ip.key_value_memory_dict EXCEPT ![m.layer_number] =
             [ id    |-> id,
               shape |-> AllocateShape(m, ip.max_sequence_length, ip.max_batch_size,
                                       m.num_query_groups_per_partition),
               key   |-> AllocateMemory(ip.max_sequence_length, ip.max_batch_size),
               value |-> AllocateMemory(ip.max_sequence_length, ip.max_batch_size) ] ]
    ELSE ip.key_value_memory_dict

\* A variant without the assertion on the sequence end.
CacheBoundsOk_batchOnly(batch_end, sequence_end, memShape) ==
    batch_end <= memShape[2]

\* The two assertions guarding the cache write.
CacheBoundsOk(batch_end, sequence_end, memShape) ==
    /\ batch_end <= memShape[2]
    /\ sequence_end <= memShape[1]

\* The rows (0-based) a python slice [start:end] selects on an axis of size n.
SliceRows(start, end, n) == { i \in 0..(n - 1) : start <= i /\ i < end }

\* Whether a source axis of length k can be assigned to a slice of length n.
Assignable(k, n) == k = n \/ k = 1

\* A variant that ignores the batch range and writes whole rows.
SliceAssign_wholeRows(mem, rows, cols, v) ==
    [ r \in DOMAIN mem |->
        [ c \in DOMAIN mem[r] |-> IF (r - 1) \in rows THEN v ELSE mem[r][c] ] ]

\* memory[sequence_start:sequence_end, batch_start:batch_end, ...] = layer
SliceAssign(mem, rows, cols, v) ==
    [ r \in DOMAIN mem |->
        [ c \in DOMAIN mem[r] |->
            IF (r - 1) \in rows /\ (c - 1) \in cols THEN v ELSE mem[r][c] ] ]

\* Lines 619-635: keys and values are projected from torch.concat([context,
\* latents], dim=0) and viewed per head: [L + n, b, np, hn].
KeyLayerShape(m, latents, context) ==
    << context[1] + latents[1], latents[2], m.num_attention_heads_per_partition,
       m.hidden_size_per_attention_head_kv >>

\* A variant projecting the queries from the concatenation, like the keys.
QueryLayerShape_fromConcat(m, latents, context) ==
    << context[1] + latents[1], latents[2], m.num_attention_heads_per_partition,
       m.hidden_size_per_attention_head >>

\* Lines 637-643: queries are projected from the latents alone: [n, b, np, hn].
QueryLayerShape(m, latents, context) ==
    << latents[1], latents[2], m.num_attention_heads_per_partition,
       m.hidden_size_per_attention_head >>

\* ParallelAttention.forward(latents, context, attention_mask, inference_params).
\* cached says whether inference_params is given; id is the number of this call.
\* The result carries the new key_value_memory_dict and what the call did.
ParallelAttention_forward(m, latents, context, attention_mask, cached, ip, id) ==
    LET dict1 == IF cached THEN PreAllocate(m, ip, id) ELSE ip.key_value_memory_dict
        entry == dict1[m.layer_number]
        \* torch.concat([context, latents], dim=0)
        catOk == context[2] = latents[2] /\ context[3] = latents[3]
        linOk == latents[3] = m.text_hidden_size
        key_layer == KeyLayerShape(m, latents, context)
        query_layer == QueryLayerShape(m, latents, context)
        batch_start == ip.batch_size_offset
        batch_end == batch_start + key_layer[2]
        sequence_start == ip.sequence_len_offset
        sequence_end == sequence_start + key_layer[1]
        rows == SliceRows(sequence_start, sequence_end, entry.shape[1])
        cols == SliceRows(batch_start, batch_end, entry.shape[2])
        writeOk == /\ Assignable(key_layer[1], Cardinality(rows))
                   /\ Assignable(key_layer[2], Cardinality(cols))
                   /\ Assignable(key_layer[3], entry.shape[3])
        dict2 == [ dict1 EXCEPT ![m.layer_number] =
                     [ entry EXCEPT !.key = SliceAssign(entry.key, rows, cols, id),
                                    !.value = SliceAssign(entry.value, rows, cols, id) ] ]
        \* memory[:sequence_end, batch_start:batch_end, ...]
        eff_key == << Cardinality(SliceRows(0, sequence_end, entry.shape[1])),
                      Cardinality(cols), entry.shape[3], entry.shape[4] >>
        k == IF cached THEN eff_key ELSE key_layer
        coreRes == IF ~m.use_flash_attn
                   THEN CoreAttention_forward(m.core_attention, query_layer, k, k,
                                              attention_mask)
                   ELSE LET f == FlashSelfAttention_forward(
                                     << query_layer[2], query_layer[1], query_layer[3],
                                        query_layer[4] >>,
                                     << k[2], k[1], k[3], k[4] >>,
                                     << k[2], k[1], k[3], k[4] >>, attention_mask)
                        IN  IF f.status # "ok" THEN f
                            ELSE Ok(<< f.shape[2], f.shape[1], f.shape[3] * f.shape[4] >>)
        info == [ layer_number |-> m.layer_number, cached |-> cached,
                  key_len |-> key_layer[1], query_len |-> query_layer[1],
                  batch_start |-> batch_start, batch_end |-> batch_end,
                  sequence_start |-> sequence_start, sequence_end |-> sequence_end,
                  rows |-> IF cached THEN rows ELSE {},
                  cols |-> IF cached THEN cols ELSE {},
                  effective_key |-> k ]
        Res(status, shape, dict, wrote) ==
            [ status |-> status, shape |-> shape, dict |-> dict, wrote |-> wrote,
              info |-> info ]
    IN  IF ~catOk \/ ~linOk THEN Res("RuntimeError", NoShape, dict1, FALSE)
        ELSE IF cached /\ ~CacheBoundsOk(batch_end, sequence_end, entry.shape)
             THEN Res("AssertionError", NoShape, dict1, FALSE)
        ELSE IF cached /\ ~writeOk THEN Res("RuntimeError", NoShape, dict1, FALSE)
        ELSE LET dict3 == IF cached THEN dict2 ELSE dict1
             IN  IF coreRes.status # "ok"
                 THEN Res(coreRes.status, NoShape, dict3, cached)
                 ELSE IF Last(coreRes.shape) # m.dense_in
                      THEN Res("RuntimeError", NoShape, dict3, cached)
                      ELSE Res("ok", WithLast(coreRes.shape, m.dense_out), dict3, cached)

\* The layer numbers of the attention modules sharing one inference_params.
AttnLayerNumbers == {1, 2}

AttnConfigs ==
    [ kv_channels : 1..2, num_attention_heads : {2, 4}, text_hidden_size : {3} ]

AttnArgs ==
    [ use_flash_attn : BOOLEAN, group_query_attention : BOOLEAN,
      num_query_groups : {2} ]

\* What the calls so far wrote into one layer's memory: every (row, column, call)
\* ever written, the batch range and the sequence end of the last write, and
\* whether every write so far appended (same batch range, offset at or past the
\* previous sequence end).
NoTrack ==
    [ cells |-> {}, n |-> 0, batch_start |-> 0, batch_end |-> 0,
      sequence_end |-> 0, appending |-> TRUE ]

TrackWrite(t, r, id) ==
    LET i == r.info
    IN  [ cells |-> t.cells \cup { <<x, y, id>> : x \in i.rows, y \in i.cols },
          n |-> t.n + 1,
          batch_start |-> i.batch_start, batch_end |-> i.batch_end,
          sequence_end |-> i.sequence_end,
          appending |-> /\ t.appending
                        /\ t.n > 0 => /\ i.batch_start = t.batch_start
                                      /\ i.batch_end = t.batch_end
                                      /\ i.sequence_start >= t.sequence_end ]

\* A fresh inference_params structure as the host inference loop creates it.
NewInferenceParams(ms, mb) ==
    [ max_sequence_length |-> ms, max_batch_size |-> mb,
      sequence_len_offset |-> 0, batch_size_offset |-> 0,
      key_value_memory_dict |-> [ l \in AttnLayerNumbers |-> NoEntry ] ]

AttnStart(config, args, world, ms, mb) ==
    /\ AttnConstructible(config, args, world)
    /\ attn = [ l \in AttnLayerNumbers |-> ParallelAttention_init(config, args, l, world) ]
    /\ inference_params = NewInferenceParams(ms, mb)
    /\ attn_ret = [ status |-> "not_called" ]
    /\ attn_calls = 0
    /\ attn_pre = [ l \in AttnLayerNumbers |-> NoEntry ]
    /\ attn_track = [ l \in AttnLayerNumbers |-> NoTrack ]
    /\ attn_nondecreasing = TRUE

\* One forward call of the attention module of layer number l on latents
\* [n, b, h] and context [L, b, h]. The caller (the host inference loop) owns
\* inference_params and sets its offsets (so, bo) before the call;
\* use_cache = FALSE is a call with inference_params = None.
AttnCall(l, use_cache, n, L, b, so, bo, mask) ==
    LET ip == IF use_cache
              THEN [ inference_params EXCEPT !.sequence_len_offset = so,
                                             !.batch_size_offset = bo ]
              ELSE inference_params
        id == attn_calls + 1
        h  == attn[l].text_hidden_size
    IN  \E r \in { ParallelAttention_forward(attn[l], <<n, b, h>>, <<L, b, h>>,
                                             mask, use_cache, ip, id) } :
          /\ attn_calls' = id
          /\ attn_nondecreasing' =
                 /\ attn_nondecreasing
                 /\ use_cache => /\ so >= inference_params.sequence_len_offset
                                 /\ bo >= inference_params.batch_size_offset
          /\ attn_pre' = inference_params.key_value_memory_dict
          /\ inference_params' = [ ip EXCEPT !.key_value_memory_dict = r.dict ]
          /\ attn_ret' = [ status |-> r.status, shape |-> r.shape,
                           wrote |-> r.wrote, info |-> r.info, id |-> id,
                           latents |-> <<n, b, h>>, context |-> <<L, b, h>>,
                           attention_mask |-> mask ]
          /\ attn_track' = IF r.wrote
                           THEN [ attn_track EXCEPT ![l] = TrackWrite(@, r, id) ]
                           ELSE attn_track
          /\ UNCHANGED attn
          /\ UNCHANGED notAttnVars

\* --- single calls over all configurations (shapes) ---
AttnInit ==
    \E config \in AttnConfigs, args \in AttnArgs, world \in 1..MaxWorld :
       AttnStart(config, args, world, MaxCacheSeq, MaxCacheBatch)

\* The masks the callers hand over: the 4-d mask the top-level forward builds,
\* the 2-d padding mask of the flash path, or None.
AttnMasks(b, n, keyLen) == { NoMask, <<b, 1, n, keyLen>>, <<b, keyLen>> }

AttnForward ==
    /\ attn_calls < 1
    /\ \E use_cache \in BOOLEAN, n \in 1..2, L \in 1..MaxSeq, b \in 1..MaxBatch :
          \E mask \in AttnMasks(b, n, L + n) :
             AttnCall(1, use_cache, n, L, b, 0, 0, mask)

AttnNext == AttnForward

\* --- decode steps on one inference_params (the cache) ---
\* With and without grouped-query attention: the cache is allocated with
\* num_query_groups_per_partition heads, the keys have
\* num_attention_heads_per_partition heads.
KVArgs ==
    { [ use_flash_attn |-> FALSE, group_query_attention |-> FALSE, num_query_groups |-> 2 ],
      [ use_flash_attn |-> FALSE, group_query_attention |-> TRUE, num_query_groups |-> 2 ],
      [ use_flash_attn |-> FALSE, group_query_attention |-> TRUE, num_query_groups |-> 1 ] }

KVInit ==
    \E args \in KVArgs :
       AttnStart([ kv_channels |-> 1, num_attention_heads |-> 2, text_hidden_size |-> 3 ],
                 args, 1, MaxCacheSeq, MaxCacheBatch)

\* The caller passes the mask of the whole cached prefix.
KVDecodeStep ==
    /\ attn_calls < MaxAttnCalls
    /\ \E l \in AttnLayerNumbers, b \in 1..MaxCacheBatch,
          so \in 0..MaxCacheSeq - 1, bo \in 0..MaxCacheBatch - 1 :
          AttnCall(l, TRUE, 1, 1, b, so, bo, <<b, 1, 1, so + 2>>)

KVNext == KVDecodeStep

\* ---------------------------------------------------------------------------
\* _get_num_layers
\* ---------------------------------------------------------------------------
ModelTypes == { "encoder_or_decoder", "encoder_and_decoder", "retro_encoder",
                "retro_decoder" }

\* args.pipeline_model_parallel_split_rank is None
NoSplitRank == -1

\* Python's a % b and a // b (the sign of the result follows the divisor).
PyMod(a, b) == IF b > 0 THEN a % b ELSE -((-a) % (-b))

PyFloorDiv(a, b) == IF b > 0 THEN a \div b ELSE (-a) \div (-b)

\* mpu.is_pipeline_stage_before_split()
IsPipelineStageBeforeSplit(world, rank, split_rank) ==
    \/ world = 1
    \/ split_rank = NoSplitRank
    \/ rank < split_rank

\* A variant that gives pipeline rank 0 its share under a standalone embedding stage.
StageLayers_noEmbeddingStage(a, rank, n, ranks) == PyFloorDiv(n, ranks)

\* A variant that leaves every rank without layers under a standalone embedding stage.
StageLayers_everyRank(a, rank, n, ranks) ==
    IF a.standalone_embedding_stage THEN 0 ELSE PyFloorDiv(n, ranks)

\* 0 if args.standalone_embedding_stage and rank == 0 else n // ranks
StageLayers(a, rank, n, ranks) ==
    IF a.standalone_embedding_stage /\ rank = 0 THEN 0 ELSE PyFloorDiv(n, ranks)

GnlOk(n) == [ status |-> "ok", num_layers |-> n ]

GnlRaise(exc) == [ status |-> exc, num_layers |-> -1 ]

\* _get_num_layers(args, model_type, is_decoder) on pipeline rank `rank` of a
\* pipeline of `world` stages.
GetNumLayers(a, model_type, is_decoder, world, rank) ==
    IF model_type = "retro_encoder" THEN GnlOk(a.retro_encoder_layers)
    ELSE IF world > 1
    THEN IF model_type = "encoder_and_decoder"
         THEN IF a.pipeline_model_parallel_split_rank = NoSplitRank
              THEN GnlRaise("AssertionError")
              ELSE LET num_ranks_in_encoder ==
                           IF a.standalone_embedding_stage
                           THEN a.pipeline_model_parallel_split_rank - 1
                           ELSE a.pipeline_model_parallel_split_rank
                       num_ranks_in_decoder ==
                           a.transformer_pipeline_model_parallel_size - num_ranks_in_encoder
                   IN  IF num_ranks_in_encoder = 0 THEN GnlRaise("ZeroDivisionError")
                       ELSE IF PyMod(a.encoder_num_layers, num_ranks_in_encoder) # 0
                            THEN GnlRaise("AssertionError")
                       ELSE IF num_ranks_in_decoder = 0 THEN GnlRaise("ZeroDivisionError")
                       ELSE IF PyMod(a.decoder_num_layers, num_ranks_in_decoder) # 0
                            THEN GnlRaise("AssertionError")
                       ELSE IF IsPipelineStageBeforeSplit(
                                   world, rank, a.pipeline_model_parallel_split_rank)
                            THEN GnlOk(StageLayers(a, rank, a.encoder_num_layers,
                                                   num_ranks_in_encoder))
                            ELSE GnlOk(PyFloorDiv(a.decoder_num_layers,
                                                  num_ranks_in_decoder))
         ELSE IF a.num_layers # a.encoder_num_layers THEN GnlRaise("AssertionError")
              ELSE IF a.num_layers % a.transformer_pipeline_model_parallel_size # 0
                   THEN GnlRaise("AssertionError")
              ELSE GnlOk(StageLayers(a, rank, a.num_layers,
                                     a.transformer_pipeline_model_parallel_size))
    ELSE IF ~is_decoder THEN GnlOk(a.encoder_num_layers)
         ELSE GnlOk(a.decoder_num_layers)

\* The arguments the host framework hands over for a pipeline of `world`
\* stages: its argument validation takes one stage out of the transformer
\* pipeline size for a standalone embedding stage (which needs two stages).
GnlArgs(world) ==
    { a \in [ retro_encoder_layers : {2},
              pipeline_model_parallel_split_rank : {NoSplitRank} \cup 1..MaxPipeline,
              standalone_embedding_stage : BOOLEAN,
              transformer_pipeline_model_parallel_size : 1..MaxPipeline,
              encoder_num_layers : 1..MaxNumLayers,
              decoder_num_layers : {2, 4},
              num_layers : 1..MaxNumLayers ] :
        /\ a.standalone_embedding_stage => world >= 2
        /\ a.transformer_pipeline_model_parallel_size =
              (IF a.standalone_embedding_stage THEN world - 1 ELSE world)
        /\ a.pipeline_model_parallel_split_rank # NoSplitRank =>
              a.pipeline_model_parallel_split_rank < world
        /\ a.num_layers \in { a.encoder_num_layers, a.encoder_num_layers + 1 } }

GnlInit ==
    /\ gnl_call = [ status |-> "not_called" ]
    /\ gnl_ret = GnlRaise("not_called")

GnlCall ==
    /\ gnl_ret.status = "not_called"
    /\ \E world \in 1..MaxPipeline, model_type \in ModelTypes, is_decoder \in BOOLEAN :
          \E rank \in 0..(world - 1), a \in GnlArgs(world) :
             /\ gnl_call' = [ status |-> "called", args |-> a, model_type |-> model_type,
                              is_decoder |-> is_decoder, world |-> world, rank |-> rank ]
             /\ gnl_ret' = GetNumLayers(a, model_type, is_decoder, world, rank)
    /\ UNCHANGED notGnlVars

GnlNext == GnlCall

\* ---------------------------------------------------------------------------
\* Retro layer numbers and _get_layer_type
\* ---------------------------------------------------------------------------
LayerTypes == { "encoder", "decoder", "retro_encoder", "retro_decoder",
                "retro_decoder_with_retriever" }

\* self.retro_layer_numbers = None
NoLayerNumbers == << -1 >>

\* np.arange(start, stop, step).tolist() for step > 0
Arange(start, stop, step) ==
    IF stop <= start THEN <<>>
    ELSE [ i \in 1..CeilDiv(stop - start, step) |-> start + (i - 1) * step ]

\* A variant whose range stops before args.num_layers.
RetroLayerNumbers_exclusive(model_type, config_num_layers, args_num_layers) ==
    IF model_type = "retro_encoder" THEN << 1 >>
    ELSE IF model_type = "retro_decoder"
    THEN Arange(IF config_num_layers <= 15 THEN 6 ELSE 9, args_num_layers, 3)
    ELSE NoLayerNumbers

\* Lines 1338-1344 of the constructor.
RetroLayerNumbers(model_type, config_num_layers, args_num_layers) ==
    IF model_type = "retro_encoder" THEN << 1 >>
    ELSE IF model_type = "retro_decoder"
    THEN Arange(IF config_num_layers <= 15 THEN 6 ELSE 9, args_num_layers + 1, 3)
    ELSE NoLayerNumbers

InSeq(x, seq) == \E i \in 1..Len(seq) : seq[i] = x

\* _get_layer_type; "TypeError" is `layer_number in None`, "Exception" the
\* unsupported model type.
GetLayerType(retro_add_retriever, model_type, default_layer_type, numbers, layer_number) ==
    IF ~retro_add_retriever THEN default_layer_type
    ELSE IF numbers = NoLayerNumbers THEN "TypeError"
    ELSE IF ~InSeq(layer_number, numbers) THEN default_layer_type
    ELSE IF model_type = "retro_decoder"
         THEN IF layer_number = numbers[1] THEN "retro_decoder_with_retriever"
              ELSE "retro_decoder"
    ELSE IF model_type = "retro_encoder" THEN "retro_encoder"
    ELSE "Exception"

GltInit ==
    /\ glt_call = [ status |-> "not_called" ]
    /\ retro_layer_numbers = NoLayerNumbers
    /\ glt_ret = "not_called"

\* The constructor computes retro_layer_numbers and build_layer asks for the
\* type of layer layer_number.
GltBuildLayer ==
    /\ glt_ret = "not_called"
    /\ \E model_type \in ModelTypes, config_num_layers \in 1..MaxRetroLayers,
          retro_add_retriever \in BOOLEAN, default_layer_type \in {"encoder", "decoder"} :
          \E args_num_layers \in { config_num_layers, config_num_layers + 3 },
             layer_number \in 1..config_num_layers :
             LET numbers == RetroLayerNumbers(model_type, config_num_layers,
                                              args_num_layers)
             IN  /\ glt_call' = [ status |-> "called", model_type |-> model_type,
                                  config_num_layers |-> config_num_layers,
                                  args_num_layers |-> args_num_layers,
                                  retro_add_retriever |-> retro_add_retriever,
                                  default_layer_type |-> default_layer_type,
                                  layer_number |-> layer_number ]
                 /\ retro_layer_numbers' = numbers
                 /\ glt_ret' = GetLayerType(retro_add_retriever, model_type,
                                            default_layer_type, numbers, layer_number)
    /\ UNCHANGED notGltVars

GltNext == GltBuildLayer

\* ---------------------------------------------------------------------------
\* ParallelTransformerLayer and NoopTransformerLayer
\* ---------------------------------------------------------------------------
\* torch.linspace(0, drop_path_rate, config.num_layers)[layer_number - 1] > 0.0
DropPathRatePositive(drop_path_rate_positive, layer_number) ==
    drop_path_rate_positive /\ layer_number - 1 > 0

\* ParallelTransformerLayer.__init__; "NameError" is the undefined name
\* ParallelTransformer of the retriever branch.
ParallelTransformerLayer_init(config, args, layer_number, layer_type, drop_path, world) ==
    IF layer_type = "retro_decoder_with_retriever" THEN [ status |-> "NameError" ]
    ELSE [ status |-> "ok",
           kind |-> "ParallelTransformerLayer",
           layer_number |-> layer_number,
           layer_type |-> layer_type,
           text_hidden_size |-> config.text_hidden_size,
           self_attention |-> ParallelAttention_init(config, args, layer_number, world),
           attention_bias |-> args.add_bias_linear,
           drop_path |-> drop_path,
           mlp |-> Idefics2ParallelMLP_init(
                       [ input_size |-> config.text_hidden_size,
                         ffn_hidden_size |-> config.text_hidden_size * 4,
                         output_size |-> config.text_hidden_size,
                         gated_linear_unit |-> TRUE,
                         add_bias_linear |-> config.add_bias_linear ],
                       args, world) ]

NoopTransformerLayer_init(layer_number) ==
    [ status |-> "ok", kind |-> "NoopTransformerLayer", layer_number |-> layer_number ]

LayerResult(status, shape, dict) == [ status |-> status, shape |-> shape, dict |-> dict ]

\* Lines 1102-1143: the MLP on the normalized attention result, the second
\* residual connection; m is what self.mlp returned.
LayerAfterMLP(residual, dict, m) ==
    IF m.status # "ok" THEN LayerResult(m.status, NoShape, dict)
    ELSE IF m.shape # residual THEN LayerResult("RuntimeError", NoShape, dict)
    ELSE LayerResult("ok", residual, dict)

\* Lines 1071-1143: the first residual connection and what follows; a is what
\* self.self_attention returned. With a drop path the code adds attention_bias
\* to the attention output, and attention_bias is None without a linear bias.
LayerAfterAttention(layer, residual, a) ==
    IF a.status # "ok" THEN LayerResult(a.status, NoShape, a.dict)
    ELSE IF layer.drop_path /\ ~layer.attention_bias
         THEN LayerResult("TypeError", NoShape, a.dict)
    ELSE IF a.shape # residual THEN LayerResult("RuntimeError", NoShape, a.dict)
    ELSE LayerAfterMLP(residual, a.dict, Idefics2ParallelMLP_forward(layer.mlp, a.shape))

\* ParallelTransformerLayer.forward on latents [n, b, h] and context [L, b, h].
ParallelTransformerLayer_forward(layer, latents, context, attention_mask, cached, ip, id) ==
    IF Last(latents) # layer.text_hidden_size \/ Last(context) # layer.text_hidden_size
    THEN LayerResult("RuntimeError", NoShape, ip.key_value_memory_dict)
    ELSE LayerAfterAttention(layer, latents,
             ParallelAttention_forward(layer.self_attention, latents, context,
                                       attention_mask, cached, ip, id))

\* ---------------------------------------------------------------------------
\* Idefics2PerceiverParallelTransformer
\* ---------------------------------------------------------------------------
\* A tensor: its shape and where its values come from: the tensor it started
\* as, the indices of the layers it went through, whether final_norm was applied.
Tensor(shape, src) == [ shape |-> shape, src |-> src, layers |-> <<>>, normed |-> FALSE ]

NoTensor == Tensor(NoShape, "None")

\* config.virtual_pipeline_model_parallel_size is None
NoVirtualPipeline == 0

\* The offset of the first layer number of this stage (lines 1402-1432).
LayerOffset(config, args, layer_type, mpu, num_layers) ==
    IF config.virtual_pipeline_model_parallel_size # NoVirtualPipeline
    THEN mpu.virtual_rank *
            (config.num_layers \div config.virtual_pipeline_model_parallel_size)
         + mpu.rank * num_layers
    ELSE IF args.model_type = "encoder_and_decoder" /\ mpu.world > 1
         THEN IF layer_type = "encoder" THEN mpu.rank * num_layers
              ELSE (mpu.rank - args.pipeline_model_parallel_split_rank) * num_layers
         ELSE mpu.rank * num_layers

\* build_layer(layer_number): the 'local' implementation builds a
\* ParallelTransformerLayer, any other implementation meets `assert False`.
\* self.drop_path_rates has config.num_layers entries.
BuildLayer(config, args, model_type, layer_type, drop_path, numbers, layer_number) ==
    IF args.transformer_impl # "local" THEN [ status |-> "AssertionError" ]
    ELSE LET t == GetLayerType(args.retro_add_retriever, model_type, layer_type,
                               numbers, layer_number)
         IN  IF t \in {"TypeError", "Exception"} THEN [ status |-> t ]
             ELSE IF \/ layer_number - 1 >= config.num_layers
                     \/ layer_number - 1 < -config.num_layers
             THEN [ status |-> "IndexError" ]
             ELSE ParallelTransformerLayer_init(
                      config, args, layer_number, t,
                      DropPathRatePositive(drop_path,
                          IF layer_number - 1 >= 0 THEN layer_number
                          ELSE layer_number + config.num_layers), 1)

\* The names args.fp8 can take for a DelayedScaling recipe; "None" is None.
Fp8Formats == {"e4m3", "hybrid"}

\* A variant without the assertion on the implementation FP8 needs.
EngineInit_fp8Unchecked(args, mpu) ==
    IF args.transformer_impl = "transformer_engine" /\ ~mpu.transformer_engine
    THEN "ModuleNotFoundError"
    ELSE IF args.transformer_impl = "transformer_engine" /\ args.squared_relu
    THEN "AssertionError"
    ELSE IF args.fp8 # "None" /\ args.fp8 \notin Fp8Formats
    THEN "ValueError"
    ELSE "ok"

\* Lines 1280-1321: the transformer-engine import and the FP8 recipe; "ok"
\* when they pass. mpu.transformer_engine says whether the package imports.
EngineInit(args, mpu) ==
    IF args.transformer_impl = "transformer_engine" /\ ~mpu.transformer_engine
    THEN "ModuleNotFoundError"
    ELSE IF args.transformer_impl = "transformer_engine" /\ args.squared_relu
    THEN "AssertionError"
    ELSE IF args.fp8 # "None" /\ args.transformer_impl # "transformer_engine"
    THEN "AssertionError"
    ELSE IF args.fp8 # "None" /\ args.fp8 \notin Fp8Formats
    THEN "ValueError"
    ELSE "ok"

\* Idefics2PerceiverParallelTransformer.__init__; flags are post_norm,
\* pre_process, post_process and whether drop_path_rate > 0; mpu is the
\* pipeline-parallel state.
Transformer_init(config, args, model_type, layer_type, flags, mpu) ==
    LET vp == config.virtual_pipeline_model_parallel_size
        numbers == RetroLayerNumbers(model_type, config.num_layers, args.num_layers)
        num_layers == IF vp # NoVirtualPipeline THEN config.num_layers \div vp
                      ELSE config.num_layers
        offset == LayerOffset(config, args, layer_type, mpu, num_layers)
        built == [ i \in 1..num_layers |->
                     BuildLayer(config, args, model_type, layer_type, flags.drop_path,
                                numbers, i + offset) ]
        failed == { i \in 1..num_layers : built[i].status # "ok" }
        first == CHOOSE i \in failed : \A j \in failed : i <= j
    IN  IF EngineInit(args, mpu) # "ok" THEN [ status |-> EngineInit(args, mpu) ]
        ELSE IF args.retro_add_retriever /\ config.recompute_granularity = "full"
        THEN [ status |-> "AssertionError" ]
        ELSE IF args.retro_add_retriever /\ args.transformer_impl # "local"
        THEN [ status |-> "AssertionError" ]
        ELSE IF vp # NoVirtualPipeline /\ config.num_layers % vp # 0
        THEN [ status |-> "AssertionError" ]
        ELSE IF vp # NoVirtualPipeline /\ args.model_type = "encoder_and_decoder"
        THEN [ status |-> "AssertionError" ]
        ELSE IF failed # {} THEN [ status |-> built[first].status ]
        ELSE [ status |-> "ok",
               post_norm |-> flags.post_norm,
               pre_process |-> flags.pre_process,
               post_process |-> flags.post_process,
               recompute_granularity |-> config.recompute_granularity,
               recompute_method |-> config.recompute_method,
               recompute_num_layers |-> config.recompute_num_layers,
               use_flash_attn |-> args.use_flash_attn,
               retro_layer_numbers |-> numbers,
               num_layers |-> IF num_layers = 0 THEN 1 ELSE num_layers,
               layers |-> IF num_layers = 0 THEN << NoopTransformerLayer_init(1) >>
                          ELSE built,
               modality_projection |->
                   Idefics2ParallelMLP_init(
                       [ input_size |-> config.vision_hidden_size,
                         ffn_hidden_size |-> config.intermediate_size,
                         output_size |-> config.text_hidden_size,
                         gated_linear_unit |-> TRUE,
                         add_bias_linear |-> config.add_bias_linear ],
                       args, 1),
               n_latents |-> config.n_latents,
               text_hidden_size |-> config.text_hidden_size,
               has_final_norm |-> flags.post_process /\ flags.post_norm ]

FwdIdleFrame == [ pc |-> "idle" ]

FwdRaise(exc) == [ status |-> exc, value |-> NoTensor ]

FwdReturnValue(t) == [ status |-> "ok", value |-> t ]

\* The number of a cache write: one per cached layer call.
FwdWriteId(index) == (fwd_calls * (MaxFwdLayers + 1)) + index + 1

\* x after the layer at `index` of the stack.
LayerOutput(x, shape, index) ==
    [ x EXCEPT !.shape = shape, !.layers = Append(@, index) ]

\* layer(x, context, attention_mask, ...) for the layer at `index`. The call
\* of a NoopTransformerLayer does not bind (its forward has no parameter for
\* the third positional argument and the keywords): TypeError.
CallLayer(index, x, context, attention_mask, cached, ip) ==
    LET layer == transformer.layers[index + 1]
    IN  IF layer.kind = "NoopTransformerLayer"
        THEN LayerResult("TypeError", NoShape, ip.key_value_memory_dict)
        ELSE ParallelTransformerLayer_forward(layer, x.shape, context.shape,
                                              attention_mask, cached, ip,
                                              FwdWriteId(index))

LogEntry(index, x, context, attention_mask, checkpointed, r) ==
    [ index |-> index, latents |-> x, context |-> context,
      attention_mask |-> attention_mask, checkpointed |-> checkpointed,
      status |-> r.status,
      output |-> IF r.status = "ok" THEN LayerOutput(x, r.shape, index) ELSE NoTensor ]

\* The tensors the pipeline schedule hands to set_input_tensor: [b, L, vision].
FwdInputTensorShapes ==
    { << 1, 1, transformer.modality_projection.h_to_4h_in >>,
      << MaxBatch, MaxSeq, transformer.modality_projection.h_to_4h_in >> }

\* set_input_tensor, called by the pipeline schedule before the forward.
SetInputTensor ==
    /\ transformer.status = "ok"
    /\ fwd.pc = "idle"
    /\ fwd_calls = 0
    /\ input_tensor = NoTensor
    /\ \E shape \in FwdInputTensorShapes :
          input_tensor' = Tensor(shape, "input_tensor")
    /\ UNCHANGED << transformer, microbatch_count, num_microbatches_in_previous_step,
                    fwd, fwd_log, fwd_ret, fwd_calls, fwd_inference_params,
                    fwd_history >>
    /\ UNCHANGED notFwdVars

\* A variant that takes every other method for 'block'.
CheckpointedMethod_defaultBlock(recompute_method) ==
    IF recompute_method = "uniform" THEN "uniform" ELSE "block"

\* The branch _checkpointed_forward takes (lines 1510, 1535, 1566-1567).
CheckpointedMethod(recompute_method) ==
    IF recompute_method = "uniform" THEN "uniform"
    ELSE IF recompute_method = "block" THEN "block"
    ELSE "ValueError"

\* forward, lines 1591-1675: the checks, the input, the modality projection, the
\* microbatch bookkeeping, the latents and the mask, up to the choice of the
\* path. hs is the hidden_states argument [b, L, vision], mask the 2-d
\* attention_mask [b, L]; inference says whether inference_params is given;
\* nmb is get_num_microbatches().
ForwardEnter(hs, mask, inference, training, grad_enabled, nmb) ==
    LET t == transformer
        hidden_states == IF t.pre_process THEN hs ELSE input_tensor
        mp == Idefics2ParallelMLP_forward(t.modality_projection, hidden_states.shape)
        count == IF num_microbatches_in_previous_step # nmb THEN 0 ELSE microbatch_count
        b == hidden_states.shape[1]
        latents == Tensor(<<b, t.n_latents, t.text_hidden_size>>, "latents")
        catOk == Len(mask) = 2
        mask2 == << mask[1], mask[2] + t.n_latents >>
        attention_mask == IF ~t.use_flash_attn
                          THEN << mask2[1], 1, t.n_latents, mask2[2] >>
                          ELSE mask2
        context == Tensor(<< mp.shape[2], mp.shape[1], mp.shape[3] >>, "context")
        compressed_context == Tensor(<< t.n_latents, b, t.text_hidden_size >>, "latents")
        frame(pc) == [ pc |-> pc, hidden_states |-> hidden_states,
                       context |-> context, attention_mask |-> attention_mask,
                       latents |-> compressed_context,
                       compressed_context |-> compressed_context,
                       index |-> 0, mask |-> mask,
                       inference |-> inference, training |-> training,
                       grad_enabled |-> grad_enabled,
                       is_first_microbatch |-> (count % nmb = 0) ]
        fail(exc) == /\ fwd_ret' = FwdRaise(exc)
                     /\ fwd' = FwdIdleFrame
        call(counted) == [ nmb |-> nmb, training |-> training,
                           grad_enabled |-> grad_enabled, inference |-> inference,
                           counted |-> counted,
                           is_first_microbatch |-> counted /\ (count % nmb = 0),
                           completed |-> FALSE ]
    IN  /\ fwd_calls' = fwd_calls + 1
        /\ fwd_log' = <<>>
        /\ fwd_history' = Append(fwd_history, call(~(\/ inference /\ t.recompute_granularity # "None"
                                                    \/ hidden_states = NoTensor
                                                    \/ mp.status # "ok")))
        /\ UNCHANGED << transformer, input_tensor, fwd_inference_params >>
        /\ UNCHANGED notFwdVars
        /\ IF inference /\ t.recompute_granularity # "None"
           THEN fail("AssertionError")
                /\ UNCHANGED << microbatch_count, num_microbatches_in_previous_step >>
           ELSE IF hidden_states = NoTensor
           THEN fail("AttributeError")
                /\ UNCHANGED << microbatch_count, num_microbatches_in_previous_step >>
           ELSE IF mp.status # "ok"
           THEN fail(mp.status)
                /\ UNCHANGED << microbatch_count, num_microbatches_in_previous_step >>
           ELSE /\ microbatch_count' = count
                /\ num_microbatches_in_previous_step' = nmb
                /\ IF ~catOk THEN fail("RuntimeError")
                   ELSE IF t.recompute_granularity # "full"
                   THEN fwd' = frame("plain") /\ fwd_ret' = FwdRaise("running")
                   ELSE IF CheckpointedMethod(t.recompute_method) # "ValueError"
                   THEN /\ fwd' = frame(CheckpointedMethod(t.recompute_method))
                        /\ fwd_ret' = FwdRaise("running")
                   ELSE fail("ValueError")

FwdModes ==
    { [ training |-> TRUE, grad_enabled |-> TRUE ],
      [ training |-> FALSE, grad_enabled |-> FALSE ],
      [ training |-> TRUE, grad_enabled |-> FALSE ] }

FwdMicrobatches == {1, 2}

\* The forward calls followed on one constructed transformer.
FwdCallNumbers == {1}

Forward ==
    /\ transformer.status = "ok"
    /\ fwd.pc = "idle"
    /\ fwd_calls + 1 \in FwdCallNumbers
    /\ \E b \in 1..MaxBatch, L \in 1..MaxSeq, inference \in BOOLEAN, mode \in FwdModes,
          nmb \in FwdMicrobatches :
          ForwardEnter(Tensor(<<b, L, transformer.modality_projection.h_to_4h_in>>,
                              "hidden_states"),
                       <<b, L>>, inference, mode.training, mode.grad_enabled, nmb)

\* A variant of the loop that hands every layer the expanded latents.
PlainLayerInput_initialLatents(f) == f.latents

\* The latent input of the next layer call of the plain loop.
PlainLayerInput(f) == f.compressed_context

\* One iteration of the plain loop, lines 1696-1703.
PlainLayer ==
    /\ fwd.pc = "plain"
    /\ fwd.index < transformer.num_layers
    /\ LET x == PlainLayerInput(fwd)
       IN  \E r \in { CallLayer(fwd.index, x, fwd.context, fwd.attention_mask,
                                fwd.inference, fwd_inference_params) } :
             /\ fwd_log' = Append(fwd_log, LogEntry(fwd.index, x, fwd.context,
                                                    fwd.attention_mask, FALSE, r))
             /\ fwd_inference_params' =
                    [ fwd_inference_params EXCEPT !.key_value_memory_dict = r.dict ]
             /\ IF r.status = "ok"
                THEN /\ fwd' = [ fwd EXCEPT
                                   !.compressed_context = LayerOutput(x, r.shape, fwd.index),
                                   !.index = @ + 1 ]
                     /\ UNCHANGED fwd_ret
                ELSE /\ fwd' = FwdIdleFrame
                     /\ fwd_ret' = FwdRaise(r.status)
    /\ UNCHANGED << transformer, input_tensor, microbatch_count,
                    num_microbatches_in_previous_step, fwd_calls, fwd_history >>
    /\ UNCHANGED notFwdVars

\* custom(start, end)(x, ...): the layers start..end-1 in turn, each fetched
\* with _get_layer (an IndexError past the end of the stack).
RECURSIVE CustomForward(_, _, _, _, _)
CustomStep(index, end, x, checkpointed, log, r) ==
    IF r.status # "ok"
    THEN [ status |-> r.status, x |-> x,
           log |-> Append(log, LogEntry(index, x, fwd.context, fwd.attention_mask,
                                        checkpointed, r)) ]
    ELSE CustomForward(index + 1, end, LayerOutput(x, r.shape, index), checkpointed,
                       Append(log, LogEntry(index, x, fwd.context, fwd.attention_mask,
                                            checkpointed, r)))

CustomForward(index, end, x, checkpointed, log) ==
    IF index >= end THEN [ status |-> "ok", x |-> x, log |-> log ]
    ELSE IF index >= Len(transformer.layers)
    THEN [ status |-> "IndexError", x |-> x, log |-> log ]
    ELSE CustomStep(index, end, x, checkpointed, log,
                    CallLayer(index, x, fwd.context, fwd.attention_mask, FALSE,
                              fwd_inference_params))

\* What one checkpointed or direct call of custom(start, end) leaves behind;
\* next is the loop counter after it.
AfterCustom(start, end, checkpointed, next) ==
    \E r \in { CustomForward(start, end, fwd.compressed_context, checkpointed, fwd_log) } :
       /\ fwd_log' = r.log
       /\ IF r.status = "ok"
          THEN /\ fwd' = [ fwd EXCEPT !.compressed_context = r.x, !.index = next ]
               /\ UNCHANGED fwd_ret
          ELSE /\ fwd' = FwdIdleFrame
               /\ fwd_ret' = FwdRaise(r.status)
       /\ UNCHANGED << transformer, input_tensor, microbatch_count,
                       num_microbatches_in_previous_step, fwd_calls,
                       fwd_inference_params, fwd_history >>
       /\ UNCHANGED notFwdVars

\* One iteration of the while loop of the 'uniform' method, lines 1515-1533.
UniformChunk ==
    /\ fwd.pc = "uniform"
    /\ fwd.index < transformer.num_layers
    /\ AfterCustom(fwd.index, fwd.index + transformer.recompute_num_layers, TRUE,
                   fwd.index + transformer.recompute_num_layers)

\* A variant that checkpoints one layer more.
BlockCheckpointed_inclusive(l, recompute_num_layers) == l <= recompute_num_layers

\* Line 1540: whether the 'block' method checkpoints layer l.
BlockCheckpointed(l, recompute_num_layers) == l < recompute_num_layers

\* One iteration of the for loop of the 'block' method, lines 1539-1565.
BlockLayer ==
    /\ fwd.pc = "block"
    /\ fwd.index < transformer.num_layers
    /\ AfterCustom(fwd.index, fwd.index + 1,
                   BlockCheckpointed(fwd.index, transformer.recompute_num_layers),
                   fwd.index + 1)

\* self.final_norm(compressed_context)
FinalNorm(x) == [ x EXCEPT !.normed = TRUE ]

\* Lines 1719-1723: what forward returns.
ForwardResult(t, f) ==
    IF t.post_process /\ t.post_norm THEN FinalNorm(f.compressed_context)
    ELSE f.hidden_states

\* A variant that counts every call.
MicrobatchAdvance_always(count, grad_enabled, training) == count + 1

\* Lines 1715-1717: the counter after a call.
MicrobatchAdvance(count, grad_enabled, training) ==
    IF grad_enabled /\ training THEN count + 1 ELSE count

\* The end of forward, lines 1715-1723, once the layers are done.
ForwardReturn ==
    /\ fwd.pc \in {"plain", "uniform", "block"}
    /\ fwd.index >= transformer.num_layers
    /\ microbatch_count' = MicrobatchAdvance(microbatch_count, fwd.grad_enabled,
                                             fwd.training)
    /\ fwd_ret' = FwdReturnValue(ForwardResult(transformer, fwd))
    /\ fwd' = [ fwd EXCEPT !.pc = "idle" ]
    /\ fwd_history' = [ fwd_history EXCEPT ![Len(fwd_history)].completed = TRUE ]
    /\ UNCHANGED << transformer, input_tensor, num_microbatches_in_previous_step,
                    fwd_log, fwd_calls, fwd_inference_params >>
    /\ UNCHANGED notFwdVars

FwdLayerNumbers == 1..MaxFwdLayers

\* The caller's inference_params, fresh, with offsets 0.
FwdNewInferenceParams ==
    [ max_sequence_length |-> MaxCacheSeq, max_batch_size |-> MaxCacheBatch,
      sequence_len_offset |-> 0, batch_size_offset |-> 0,
      key_value_memory_dict |-> [ l \in FwdLayerNumbers |-> NoEntry ] ]

\* (recompute_granularity, recompute_method, recompute_num_layers)
FwdRecompute ==
    { <<"None", "None", 0>>, <<"selective", "None", 0>>, <<"full", "None", 1>> }
    \cup { <<"full", m, k>> : m \in {"uniform", "block"}, k \in 0..MaxFwdLayers }

FwdConfig(num_layers, n_latents, recompute) ==
    [ num_layers |-> num_layers, n_latents |-> n_latents,
      vision_hidden_size |-> 3, intermediate_size |-> 2, text_hidden_size |-> 2,
      kv_channels |-> 1, num_attention_heads |-> 2, add_bias_linear |-> TRUE,
      recompute_granularity |-> recompute[1], recompute_method |-> recompute[2],
      recompute_num_layers |-> recompute[3],
      virtual_pipeline_model_parallel_size |-> NoVirtualPipeline ]

FwdArgs(num_layers, swiglu, use_flash_attn) ==
    [ openai_gelu |-> FALSE, onnx_safe |-> FALSE, swiglu |-> swiglu,
      squared_relu |-> FALSE, bias_gelu_fusion |-> FALSE,
      use_flash_attn |-> use_flash_attn, group_query_attention |-> FALSE,
      num_query_groups |-> 2, add_bias_linear |-> TRUE,
      retro_add_retriever |-> FALSE, model_type |-> "encoder_or_decoder",
      num_layers |-> num_layers, pipeline_model_parallel_split_rank |-> NoSplitRank,
      transformer_impl |-> "local", fp8 |-> "None" ]

FwdFlags ==
    [ post_norm : BOOLEAN, pre_process : BOOLEAN, post_process : BOOLEAN,
      drop_path : {FALSE} ]

\* The constructions: every flag combination on the plain path, with and
\* without swiglu and flash attention; every recompute setting under swiglu;
\* pipeline rank 0 and a later rank.
FwdSetups ==
    { [ num_layers |-> n, n_latents |-> k, recompute |-> << "None", "None", 0 >>,
        swiglu |-> sw, use_flash_attn |-> fl, flags |-> fg,
        mpu |-> [ rank |-> 0, virtual_rank |-> 0, world |-> 1 ] ] :
        n \in 0..MaxFwdLayers, k \in 1..2, sw \in BOOLEAN, fl \in BOOLEAN,
        fg \in FwdFlags }
    \cup
    { [ num_layers |-> n, n_latents |-> 2, recompute |-> rc,
        swiglu |-> TRUE, use_flash_attn |-> FALSE, flags |-> fg,
        mpu |-> [ rank |-> 0, virtual_rank |-> 0, world |-> 1 ] ] :
        n \in 0..MaxFwdLayers, rc \in FwdRecompute, fg \in FwdFlags }
    \cup
    { [ num_layers |-> n, n_latents |-> 2, recompute |-> << "None", "None", 0 >>,
        swiglu |-> TRUE, use_flash_attn |-> FALSE,
        flags |-> [ post_norm |-> TRUE, pre_process |-> FALSE, post_process |-> TRUE,
                    drop_path |-> FALSE ],
        mpu |-> [ rank |-> 1, virtual_rank |-> 0, world |-> 2 ] ] :
        n \in 0..MaxFwdLayers }

FwdInit ==
    /\ \E su \in FwdSetups :
          transformer = Transformer_init(
                            FwdConfig(su.num_layers, su.n_latents, su.recompute),
                            FwdArgs(su.num_layers, su.swiglu, su.use_flash_attn),
                            "encoder_or_decoder", "encoder", su.flags, su.mpu)
    /\ input_tensor = NoTensor
    /\ microbatch_count = 0
    /\ num_microbatches_in_previous_step = -1
    /\ fwd = FwdIdleFrame
    /\ fwd_log = <<>>
    /\ fwd_ret = FwdRaise("not_called")
    /\ fwd_calls = 0
    /\ fwd_inference_params = FwdNewInferenceParams
    /\ fwd_history = <<>>

\* A transformer of one layer on a single stage, as the training loop calls
\* it microbatch after microbatch.
MicrobatchInit ==
    /\ transformer = Transformer_init(
                          FwdConfig(1, 1, << "None", "None", 0 >>), FwdArgs(1, TRUE, FALSE),
                          "encoder_or_decoder", "encoder",
                          [ post_norm |-> TRUE, pre_process |-> TRUE,
                            post_process |-> TRUE, drop_path |-> FALSE ],
                          [ rank |-> 0, virtual_rank |-> 0, world |-> 1 ])
    /\ input_tensor = NoTensor
    /\ microbatch_count = 0
    /\ num_microbatches_in_previous_step = -1
    /\ fwd = FwdIdleFrame
    /\ fwd_log = <<>>
    /\ fwd_ret = FwdRaise("not_called")
    /\ fwd_calls = 0
    /\ fwd_inference_params = FwdNewInferenceParams
    /\ fwd_history = <<>>

\* The next forward call of the loop: training or evaluation, with the
\* microbatch count of the moment.
MicrobatchForward ==
    /\ transformer.status = "ok"
    /\ fwd.pc = "idle"
    /\ fwd_calls < MaxMicrobatchCalls
    /\ \E mode \in FwdModes, nmb \in FwdMicrobatches :
          ForwardEnter(Tensor(<< 1, 1, transformer.modality_projection.h_to_4h_in >>,
                              "hidden_states"),
                       << 1, 1 >>, FALSE, mode.training, mode.grad_enabled, nmb)

MicrobatchNext ==
    \/ MicrobatchForward
    \/ PlainLayer
    \/ ForwardReturn

FwdNext ==
    \/ SetInputTensor
    \/ Forward
    \/ PlainLayer
    \/ UniformChunk
    \/ BlockLayer
    \/ ForwardReturn

\* ---------------------------------------------------------------------------
\* The construction of the model chunks of a pipeline; NoopTransformerLayer
\* ---------------------------------------------------------------------------
\* A tensor object: its contents and the storage that holds them.
TensorObject(value, storage) == [ value |-> value, storage |-> storage ]

\* An argument that is None.
NoObject == TensorObject(NoTensor, -1)

\* The storages of the arguments that are tensors.
LiveStorages(objects) == { o.storage : o \in { x \in objects : x # NoObject } }

\* A newly allocated storage: one no live tensor uses.
FreshStorage(live) == CHOOSE st \in 0..Cardinality(live) : st \notin live

\* A variant that returns hidden_states itself.
NoopTransformerLayer_forward_noClone(hidden_states, attention_mask, encoder_output, enc_dec_attn_mask, ip) ==
    [ status |-> "ok", tensor |-> hidden_states ]

\* NoopTransformerLayer.forward: return hidden_states.clone()
NoopTransformerLayer_forward(hidden_states, attention_mask, encoder_output, enc_dec_attn_mask, ip) ==
    [ status |-> "ok",
      tensor |-> TensorObject(hidden_states.value,
                              FreshStorage(LiveStorages({ hidden_states, attention_mask,
                                                          encoder_output,
                                                          enc_dec_attn_mask }))) ]

TransformerImpls == {"local", "transformer_engine"}

\* The values of args.fp8: None, the two recipe names and another name.
Fp8Names == {"None", "e4m3", "hybrid", "e5m2"}

\* The constructions: every layer count, virtual pipeline size and pipeline
\* world size with the local implementation; every implementation and FP8
\* name on a single stage.
BuildSetups ==
    { [ num_layers |-> n, vp |-> v, world |-> w, transformer_impl |-> "local",
        fp8 |-> "None", transformer_engine |-> FALSE ] :
        n \in 0..MaxStripeLayers, v \in 0..MaxChunks, w \in 1..MaxWorld }
    \cup
    { [ num_layers |-> n, vp |-> v, world |-> 1, transformer_impl |-> i,
        fp8 |-> f, transformer_engine |-> te ] :
        n \in 0..MaxFwdLayers, v \in {NoVirtualPipeline, 1}, i \in TransformerImpls,
        f \in Fp8Names, te \in BOOLEAN }

BuildConfig(su) ==
    [ FwdConfig(su.num_layers, 1, << "None", "None", 0 >>) EXCEPT
        !.virtual_pipeline_model_parallel_size = su.vp ]

BuildArgs(su) ==
    [ FwdArgs(su.num_layers, TRUE, FALSE) EXCEPT
        !.transformer_impl = su.transformer_impl, !.fp8 = su.fp8 ]

BuildFlags ==
    [ post_norm |-> TRUE, pre_process |-> TRUE, post_process |-> TRUE,
      drop_path |-> FALSE ]

\* The model chunks a pipeline rank builds: one per virtual pipeline rank.
ChunksPerRank(su) == IF su.vp = NoVirtualPipeline THEN 1 ELSE su.vp

NoNoopCall ==
    [ made |-> FALSE, hidden_states |-> NoObject, attention_mask |-> NoObject,
      encoder_output |-> NoObject, enc_dec_attn_mask |-> NoObject,
      inference_params |-> FALSE ]

BuildInit ==
    /\ \E su \in BuildSetups :
          /\ build_setup = su
          /\ chunks = [ rank \in 0..(su.world - 1) |-> <<>> ]
    /\ noop_call = NoNoopCall
    /\ noop_ret = [ status |-> "not_called" ]

\* A pipeline rank constructs its next model chunk (the virtual pipeline rank
\* is set before each construction); a construction that raised ends the rank.
BuildChunk ==
    /\ \E rank \in DOMAIN chunks :
          /\ Len(chunks[rank]) < ChunksPerRank(build_setup)
          /\ \A c \in 1..Len(chunks[rank]) : chunks[rank][c].status = "ok"
          /\ chunks' = [ chunks EXCEPT ![rank] =
                Append(@, Transformer_init(
                              BuildConfig(build_setup), BuildArgs(build_setup),
                              "encoder_or_decoder", "encoder", BuildFlags,
                              [ rank |-> rank, virtual_rank |-> Len(chunks[rank]),
                                world |-> build_setup.world,
                                transformer_engine |-> build_setup.transformer_engine ])) ]
    /\ UNCHANGED << build_setup, noop_call, noop_ret >>
    /\ UNCHANGED notBuildVars

NoopHiddenStates ==
    { TensorObject(Tensor(shape, "hidden_states"), st) :
        shape \in { << 1, 1, 2 >>, << MaxSeq, MaxBatch, 2 >> }, st \in 0..1 }

NoopOptionalTensors(src) ==
    { NoObject } \cup { TensorObject(Tensor(<< 1, 1 >>, src), st) : st \in 0..1 }

\* A direct call of the forward of a constructed NoopTransformerLayer (one
\* call is followed: the layer keeps no state between calls).
NoopForward ==
    /\ ~noop_call.made
    /\ \E rank \in DOMAIN chunks : \E c \in 1..Len(chunks[rank]) :
          /\ chunks[rank][c].status = "ok"
          /\ chunks[rank][c].layers[1].kind = "NoopTransformerLayer"
    /\ \E hs \in NoopHiddenStates, mask \in NoopOptionalTensors("attention_mask"),
          enc \in NoopOptionalTensors("encoder_output"), ip \in BOOLEAN :
          /\ noop_call' = [ made |-> TRUE, hidden_states |-> hs, attention_mask |-> mask,
                            encoder_output |-> enc, enc_dec_attn_mask |-> NoObject,
                            inference_params |-> ip ]
          /\ noop_ret' = NoopTransformerLayer_forward(hs, mask, enc, NoObject, ip)
    /\ UNCHANGED << build_setup, chunks >>
    /\ UNCHANGED notBuildVars

BuildNext ==
    \/ BuildChunk
    \/ NoopForward

\* ---------------------------------------------------------------------------
\* Idefics2PerceiverParallelTransformer.load_state_dict
\* ---------------------------------------------------------------------------
\* A key is a string, modelled as the sequence of its segments: "layer" and
\* "norm" are the two halves of 'layernorm', "w" is any other text. A
\* dictionary is the sequence of its (key, value) entries in insertion order.
KeySegments == {"layer", "norm", "w"}

\* str.replace(old, new): every non-overlapping occurrence, from the left.
RECURSIVE StrReplace(_, _, _)
StrReplace(key, old, new) ==
    IF Len(key) < Len(old) THEN key
    ELSE IF SubSeq(key, 1, Len(old)) = old
    THEN new \o StrReplace(SubSeq(key, Len(old) + 1, Len(key)), old, new)
    ELSE << Head(key) >> \o StrReplace(Tail(key), old, new)

\* A variant that replaces the first occurrence only.
NewKey_firstOccurrence(key, transformer_impl) ==
    IF transformer_impl = "transformer_engine" THEN key
    ELSE IF \E i \in 1..(Len(key) - 1) : SubSeq(key, i, i + 1) = << "layer", "norm" >>
    THEN LET i == CHOOSE i \in 1..(Len(key) - 1) :
                     /\ SubSeq(key, i, i + 1) = << "layer", "norm" >>
                     /\ \A j \in 1..(i - 1) : SubSeq(key, j, j + 1) # << "layer", "norm" >>
         IN  SubSeq(key, 1, i - 1) \o << "norm" >> \o SubSeq(key, i + 2, Len(key))
    ELSE key

\* The key an entry is stored under (lines 1732-1736).
NewKey(key, transformer_impl) ==
    IF transformer_impl # "transformer_engine"
    THEN StrReplace(key, << "layer", "norm" >>, << "norm" >>)
    ELSE key

DictKeys(d) == { d[i][1] : i \in 1..Len(d) }

\* d[key] = value: an existing key keeps its place and takes the new value.
DictSet(d, key, value) ==
    IF key \in DictKeys(d)
    THEN [ i \in 1..Len(d) |-> IF d[i][1] = key THEN << key, value >> ELSE d[i] ]
    ELSE Append(d, << key, value >>)

\* The loop of lines 1731-1736 over the entries from position i on.
RECURSIVE RenameKeys(_, _, _, _)
RenameKeys(d, i, transformer_impl, state_dict_) ==
    IF i > Len(d) THEN state_dict_
    ELSE RenameKeys(d, i + 1, transformer_impl,
                    DictSet(state_dict_, NewKey(d[i][1], transformer_impl), d[i][2]))

\* The strict argument handed to the standard loading (lines 1738-1741).
SuperStrict_asGiven(use_mistral_rotary_position_embeddings, strict) == strict

SuperStrict(use_mistral_rotary_position_embeddings, strict) ==
    IF use_mistral_rotary_position_embeddings THEN strict ELSE FALSE

\* The parameter names of the module that loads.
ModuleKeys == { << "norm", "w" >>, << "w" >> }

\* torch.nn.Module.load_state_dict: with strict, missing or unexpected keys
\* are an error.
ModuleLoad(d, strict) ==
    IF strict /\ DictKeys(d) # ModuleKeys THEN "RuntimeError" ELSE "ok"

\* Lines 1730-1736: the loop reads the caller's dictionary and fills a new one.
LoadLoop(d, transformer_impl) ==
    [ state_dict |-> d, state_dict_ |-> RenameKeys(d, 1, transformer_impl, <<>>) ]

Keys == UNION { [ 1..n -> KeySegments ] : n \in 1..MaxKeyLen }

ShortKeys == { k \in Keys : Len(k) <= 2 }

\* The saved dictionaries: one or two entries (the second under a short key),
\* the value of an entry names it.
StateDicts ==
    { << << k, "value1" >> >> : k \in Keys }
    \cup { << << k[1], "value1" >>, << k[2], "value2" >> >> :
             k \in { kk \in Keys \X ShortKeys : kk[1] # kk[2] } }

\* The caller's strict argument; left out, it is True.
StrictArguments == { [ given |-> FALSE, strict |-> TRUE ],
                     [ given |-> TRUE, strict |-> TRUE ],
                     [ given |-> TRUE, strict |-> FALSE ] }

NoLoadCall ==
    [ made |-> FALSE, state_dict |-> <<>>, strict |-> [ given |-> FALSE, strict |-> TRUE ],
      transformer_impl |-> "local", use_mistral_rotary_position_embeddings |-> FALSE ]

NoSuperCall == [ state_dict |-> <<>>, strict |-> FALSE ]

LoadInit ==
    /\ state_dict \in StateDicts
    /\ load_call = NoLoadCall
    /\ load_super = NoSuperCall
    /\ load_ret = "not_called"

\* load_state_dict(state_dict, strict) under the settings of get_args().
LoadStateDict ==
    /\ ~load_call.made
    /\ \E impl \in TransformerImpls, flag \in BOOLEAN, strict \in StrictArguments :
          /\ load_call' = [ made |-> TRUE, state_dict |-> state_dict, strict |-> strict,
                            transformer_impl |-> impl,
                            use_mistral_rotary_position_embeddings |-> flag ]
          /\ \E r \in { LoadLoop(state_dict, impl) } :
                /\ state_dict' = r.state_dict
                /\ load_super' = [ state_dict |-> r.state_dict_,
                                   strict |-> SuperStrict(flag, strict.strict) ]
                /\ load_ret' = ModuleLoad(r.state_dict_, SuperStrict(flag, strict.strict))
    /\ UNCHANGED notLoadVars

LoadNext == LoadStateDict

\* ---------------------------------------------------------------------------
\* DropPath
\* ---------------------------------------------------------------------------
\* Probabilities and random numbers are counted in hundredths. The contents
\* of a tensor are its shape and one number per index of its axis 1 (one for
\* the whole tensor when it has a single axis); a number is finite, inf or nan.
Finite(v) == [ kind |-> "finite", v |-> v ]

NotANumber == [ kind |-> "nan", v |-> 0 ]

Infinite(sign) == [ kind |-> "inf", v |-> sign ]

Sign(v) == IF v > 0 THEN 1 ELSE IF v < 0 THEN -1 ELSE 0

\* x.div(keep_prob) for a finite x
DivByProb(x, keep_prob) ==
    IF keep_prob # 0 THEN Finite((x.v * 100) \div keep_prob)
    ELSE IF x.v = 0 THEN NotANumber
    ELSE Infinite(Sign(x.v))

\* x * m for m in {0, 1}
TimesMask(x, m) ==
    IF x.kind = "finite" THEN Finite(x.v * m)
    ELSE IF m = 0 THEN NotANumber
    ELSE x

\* floor(keep_prob + rand)
Binarize(keep_prob, rand) == (keep_prob + rand) \div 100

DropPathResult(status, tensor, draws) ==
    [ status |-> status, tensor |-> tensor, draws |-> draws ]

\* A variant that passes the input through for drop_prob 0 only.
DropPath_forward_trainingIgnored(m, hidden_state, rand) ==
    IF m.drop_prob = 0 THEN DropPathResult("ok", hidden_state, 0)
    ELSE IF Len(hidden_state.value.shape) < 2 THEN DropPathResult("IndexError", NoObject, 0)
    ELSE DropPathResult("ok",
             TensorObject(
                 [ shape |-> hidden_state.value.shape,
                   data |-> [ i \in 1..hidden_state.value.shape[2] |->
                                TimesMask(DivByProb(hidden_state.value.data[i],
                                                    100 - m.drop_prob),
                                          Binarize(100 - m.drop_prob, rand[i])) ] ],
                 FreshStorage({ hidden_state.storage })),
             1)

\* DropPath.forward; rand is what torch.rand draws, one number per index of
\* axis 1; the result counts the draws made.
DropPath_forward(m, hidden_state, rand) ==
    IF m.drop_prob = 0 \/ ~m.training THEN DropPathResult("ok", hidden_state, 0)
    ELSE IF Len(hidden_state.value.shape) < 2 THEN DropPathResult("IndexError", NoObject, 0)
    ELSE DropPathResult("ok",
             TensorObject(
                 [ shape |-> hidden_state.value.shape,
                   data |-> [ i \in 1..hidden_state.value.shape[2] |->
                                TimesMask(DivByProb(hidden_state.value.data[i],
                                                    100 - m.drop_prob),
                                          Binarize(100 - m.drop_prob, rand[i])) ] ],
                 FreshStorage({ hidden_state.storage })),
             1)

DropProbs == {0, 25, 50, 75, 100}

\* torch.rand: uniform on [0, 1)
RandomNumbers == {0, 25, 50, 75}

DropShapes == UNION { [ 1..n -> 1..MaxBatch ] : n \in 1..3 }

DropRows(shape) == IF Len(shape) >= 2 THEN shape[2] ELSE 1

DropInputs ==
    UNION { { TensorObject([ shape |-> shape, data |-> d ], 0) :
                d \in [ 1..DropRows(shape) -> { Finite(-3), Finite(0), Finite(3) } ] } :
            shape \in DropShapes }

NoDropCall == [ made |-> FALSE, hidden_state |-> NoObject, rand |-> <<>> ]

DropInit ==
    /\ dp_module \in [ drop_prob : DropProbs, training : BOOLEAN ]
    /\ dp_call = NoDropCall
    /\ dp_ret = DropPathResult("not_called", NoObject, 0)

\* module.train() / module.eval()
DropSetTraining ==
    /\ ~dp_call.made
    /\ \E mode \in BOOLEAN :
          /\ mode # dp_module.training
          /\ dp_module' = [ dp_module EXCEPT !.training = mode ]
    /\ UNCHANGED << dp_call, dp_ret >>
    /\ UNCHANGED notDropVars

\* One forward call (the module keeps no state between calls).
DropForward ==
    /\ ~dp_call.made
    /\ \E hidden_state \in DropInputs :
          \E rand \in [ 1..DropRows(hidden_state.value.shape) -> RandomNumbers ] :
             \E r \in { DropPath_forward(dp_module, hidden_state, rand) } :
                /\ dp_call' = [ made |-> TRUE, hidden_state |-> hidden_state,
                                rand |-> IF r.draws = 0 THEN <<>> ELSE rand ]
                /\ dp_ret' = r
    /\ UNCHANGED dp_module
    /\ UNCHANGED notDropVars

DropNext ==
    \/ DropSetTraining
    \/ DropForward

\* ---------------------------------------------------------------------------
\* FlashSelfAttention.forward and the arguments of the fused kernel
\* ---------------------------------------------------------------------------
\* Dropout probabilities are in hundredths.  A padding mask is modelled by the
\* number of valid keys of each of its rows, which is all unpad_input reads
\* from it to build cu_seqlens_k.

\* torch.arange(0, (batch_size + 1) * seqlen, step=seqlen)
CuSeqlens(batch_size, seqlen) == [ i \in 1..(batch_size + 1) |-> (i - 1) * seqlen ]

\* unpad_input: the cumulative sums of the rows' valid lengths, after a 0
RECURSIVE RowSum(_, _)
RowSum(lens, n) == IF n = 0 THEN 0 ELSE lens[n] + RowSum(lens, n - 1)

UnpadCuSeqlens(lens) == [ i \in 1..(Len(lens) + 1) |-> RowSum(lens, i - 1) ]

\* the local is_causal of the two branches on self.training
FlashIsCausal(m, seqlen_q, seqlen_k) ==
    IF m.training THEN m.causal ELSE seqlen_q = seqlen_k

\* the local dropout_p of the two branches on self.training
FlashDropout(m) == IF m.training THEN m.dropout_p ELSE 0

\* the causal keyword of the flash_attn_unpadded_func call
KernelCausal_computed(is_causal) == is_causal

KernelCausal(is_causal) == FALSE

NoKernelCall ==
    [ invoked |-> FALSE, cu_seqlens_q |-> <<>>, cu_seqlens_k |-> <<>>,
      seqlen_q |-> 0, seqlen_k |-> 0, dropout_p |-> 0, causal |-> FALSE,
      is_causal |-> FALSE ]

\* the flash_attn_unpadded_func call of forward on q [b, sq, np, hn] and
\* k [b, sk, n, hn]; lens is NoMask or the valid lengths of the mask's rows
FlashKernelArguments(m, q, k, lens) ==
    LET batch_size == q[1]
        seqlen_q == q[2]
        seqlen_k == k[2]
        cu_seqlens_q == CuSeqlens(batch_size, seqlen_q)
        cu_seqlens_k == IF lens # NoMask THEN UnpadCuSeqlens(lens) ELSE cu_seqlens_q
        is_causal == FlashIsCausal(m, seqlen_q, seqlen_k)
    IN  [ invoked |-> TRUE, cu_seqlens_q |-> cu_seqlens_q,
          cu_seqlens_k |-> cu_seqlens_k, seqlen_q |-> seqlen_q,
          seqlen_k |-> seqlen_k, dropout_p |-> FlashDropout(m),
          causal |-> KernelCausal(is_causal), is_causal |-> is_causal ]

FlashModules ==
    [ causal : BOOLEAN, dropout_p : {0, 10}, training : BOOLEAN ]

\* the valid lengths of the rows of a [b, sk] padding mask, or None
FlashMasks(b, sk) == { NoMask } \cup [ 1..b -> 0..sk ]

NoFlashCall ==
    [ made |-> FALSE, q |-> NoShape, k |-> NoShape, attention_mask |-> NoMask,
      half |-> FALSE, is_cuda |-> FALSE, training |-> FALSE ]

FlashInit ==
    /\ flash_module \in { m \in FlashModules : m.training }
    /\ flash_call = NoFlashCall
    /\ flash_kernel = NoKernelCall
    /\ flash_ret = NotCalled

\* module.train() / module.eval() before the call
FlashSetTraining ==
    /\ ~flash_call.made
    /\ \E mode \in BOOLEAN :
         /\ mode # flash_module.training
         /\ flash_module' = [ flash_module EXCEPT !.training = mode ]
    /\ UNCHANGED << flash_call, flash_kernel, flash_ret >>
    /\ UNCHANGED notFlashVars

\* one call of forward(q, k, v, attention_mask): the two assertions on the
\* inputs, then the kernel call
FlashForward ==
    /\ ~flash_call.made
    /\ \E b \in 1..MaxBatch, sq \in 1..MaxSeq, sk \in 1..MaxSeq,
          half \in BOOLEAN, is_cuda \in BOOLEAN :
         \E lens \in FlashMasks(b, sk) :
           LET q == << b, sq, 2, 2 >>
               k == << b, sk, 2, 2 >>
               mask == IF lens = NoMask THEN NoMask ELSE << b, sk >>
           IN  /\ flash_call' = [ made |-> TRUE, q |-> q, k |-> k,
                                  attention_mask |-> lens, half |-> half,
                                  is_cuda |-> is_cuda,
                                  training |-> flash_module.training ]
               /\ IF ~half \/ ~is_cuda
                  THEN /\ flash_kernel' = NoKernelCall
                       /\ flash_ret' = Raise("AssertionError")
                  ELSE /\ flash_kernel' = FlashKernelArguments(flash_module, q, k, lens)
                       /\ flash_ret' = FlashSelfAttention_forward(q, k, k, mask)
    /\ UNCHANGED flash_module
    /\ UNCHANGED notFlashVars

FlashNext ==
    \/ FlashSetTraining
    \/ FlashForward

\* ---------------------------------------------------------------------------
\* ParallelTransformerLayer: one forward call, step by step, and the
\* retro-decoder cross-attention procedure
\* ---------------------------------------------------------------------------
\* the layer types for which __init__ creates self.inter_attention
HasInterAttention(layer_type) ==
    layer_type \in { "decoder", "retro_decoder", "retro_decoder_with_retriever",
                     "retro_encoder" }

\* ParallelTransformerLayer.__init__ with the attributes the retro procedures
\* read.  get_retro_args is imported by the first import block only: when the
\* fallback block ran, the name is undefined.
RetroLayer_init(config, args, layer_type, drop_path, retro) ==
    IF args.retro_add_retriever /\ ~retro.get_retro_args_imported
    THEN [ status |-> "NameError" ]
    ELSE LET layer == ParallelTransformerLayer_init(config, args, 1, layer_type,
                                                    drop_path, 1)
         IN  IF layer.status # "ok" THEN [ status |-> layer.status ]
             ELSE [ status |-> "ok", layer |-> layer, layer_type |-> layer_type,
                    has_inter_attention |-> HasInterAttention(layer_type),
                    has_retro_attributes |-> args.retro_add_retriever,
                    retro_chunk_length |-> retro.retro_gpt_chunk_length ]

\* the statements of forward, in the order of the code: lines 1057-1058,
\* 1061-1069, 1071-1095, 1099, 1103, 1105-1138
LayerStepNames ==
    << "input_latents_norm", "input_context_norm", "self_attention",
       "first_residual", "post_attention_norm", "mlp", "second_residual" >>

\* the statement of forward that raises (its index in LayerStepNames), 0 when
\* the call runs through; a is what self.self_attention returned and r what
\* the whole call gives
LayerFailedStep(layer, latents, context, a, r) ==
    IF Last(latents) # layer.text_hidden_size THEN 1
    ELSE IF Last(context) # layer.text_hidden_size THEN 2
    ELSE IF a.status # "ok" THEN 3
    ELSE IF (layer.drop_path /\ ~layer.attention_bias) \/ a.shape # latents THEN 4
    ELSE IF Idefics2ParallelMLP_forward(layer.mlp, a.shape).status # "ok" THEN 6
    ELSE IF r.status # "ok" THEN 7
    ELSE 0

\* the statements a forward call went through, the raising one included
LayerSteps(failed) ==
    SubSeq(LayerStepNames, 1, IF failed = 0 THEN Len(LayerStepNames) ELSE failed)

\* lines 1140-1143: which layer type returns (output, retriever_output)
ReturnsPair_basicToo(layer_type) ==
    layer_type \in { "encoder", "retro_decoder_with_retriever" }

ReturnsPair(layer_type) == layer_type = "retro_decoder_with_retriever"

PtlResult(status, pair, output, retriever_output) ==
    [ status |-> status, pair |-> pair, output |-> output,
      retriever_output |-> retriever_output ]

PtlNotCalled == PtlResult("not_called", FALSE, NoShape, NoTensor)

\* what forward returns: the pair or the output alone
LayerReturn(layer_type, r, retriever_output) ==
    IF r.status # "ok" THEN PtlResult(r.status, FALSE, NoShape, NoTensor)
    ELSE IF ReturnsPair(layer_type)
    THEN PtlResult("ok", TRUE, r.shape, retriever_output)
    ELSE PtlResult("ok", FALSE, r.shape, NoTensor)

\* int(np.ceil(ns / self.retro_chunk_length))
ChunksPerSample(ns, retro_chunk_length) == CeilDiv(ns, retro_chunk_length)

\* lines 965-968: the guard of the case that is not implemented, a first chunk
\* shorter than retro_chunk_length
FirstChunkGuard_anyType(layer_type, first_ns) == first_ns > 0

FirstChunkGuard(layer_type, first_ns) ==
    layer_type = "retro_decoder_with_retriever" /\ first_ns > 0

\* retro_decoder_cross_attention on norm_output [ns, bs, d]: the statements
\* it goes through and how it ends.  self.inter_attention is a
\* ParallelAttention, whose forward(latents, context, attention_mask, ...)
\* has no parameter encoder_output.
RetroDecoderCrossAttention(layer, norm_output) ==
    LET ns == norm_output[1]
        m == layer.retro_chunk_length
        l == ChunksPerSample(ns, m)
        with_retriever == layer.layer_type = "retro_decoder_with_retriever"
        first_ns == ns % m
        pad == (ns - 1) % m
        padded == (ns - pad) + (m - 1)
        head == IF with_retriever
                THEN << "shape", "chunks_per_sample", "first_chunk_guard", "retriever" >>
                ELSE << "shape", "chunks_per_sample" >>
    IN  IF ~layer.has_retro_attributes
        THEN [ status |-> "AttributeError", steps |-> << "shape" >> ]
        ELSE IF FirstChunkGuard(layer.layer_type, first_ns)
        THEN [ status |-> "Exception",
               steps |-> << "shape", "chunks_per_sample", "first_chunk_guard" >> ]
        ELSE IF padded # l * m
        THEN [ status |-> "RuntimeError", steps |-> head \o << "pad_chunks" >> ]
        ELSE IF ~layer.has_inter_attention
        THEN [ status |-> "AttributeError",
               steps |-> head \o << "pad_chunks", "inter_attention" >> ]
        ELSE [ status |-> "TypeError",
               steps |-> head \o << "pad_chunks", "inter_attention" >> ]

\* retro_args.retro_gpt_chunk_length and which import block ran
RetroArgs ==
    [ get_retro_args_imported : BOOLEAN, retro_gpt_chunk_length : 1..MaxSeq ]

PtlArgs(retro_add_retriever) ==
    [ FwdArgs(1, TRUE, FALSE) EXCEPT !.retro_add_retriever = retro_add_retriever ]

NoPtlCall ==
    [ made |-> FALSE, method |-> "None", latents |-> NoShape, context |-> NoShape,
      attention_mask |-> NoMask, retriever_output |-> NoTensor,
      norm_output |-> NoShape ]

PtlInit ==
    /\ \E layer_type \in LayerTypes, drop_path \in BOOLEAN, add \in BOOLEAN,
          retro \in RetroArgs :
         ptl = RetroLayer_init(FwdConfig(1, 2, << "None", "None", 0 >>),
                               PtlArgs(add), layer_type, drop_path, retro)
    /\ ptl_call = NoPtlCall
    /\ ptl_trace = << >>
    /\ ptl_ret = PtlNotCalled

\* one call layer(latents, context, attention_mask, retriever_output=...)
PtlForward ==
    /\ ptl.status = "ok"
    /\ ~ptl_call.made
    /\ \E n \in 1..2, L \in 1..MaxSeq, b \in 1..MaxBatch, h \in {2, 3},
          given \in BOOLEAN :
         \E mask \in { NoMask, << b, 1, n, L + n >> } :
           LET latents == << n, b, h >>
               context == << L, b, 2 >>
               retriever_output == IF given THEN Tensor(<< 1, b, 2 >>, "retriever")
                                   ELSE NoTensor
               ip == FwdNewInferenceParams
               a == ParallelAttention_forward(ptl.layer.self_attention, latents,
                                              context, mask, FALSE, ip, 1)
               r == ParallelTransformerLayer_forward(ptl.layer, latents, context,
                                                     mask, FALSE, ip, 1)
           IN  /\ ptl_call' = [ made |-> TRUE, method |-> "forward",
                                latents |-> latents, context |-> context,
                                attention_mask |-> mask,
                                retriever_output |-> retriever_output,
                                norm_output |-> NoShape ]
               /\ ptl_trace' = LayerSteps(LayerFailedStep(ptl.layer, latents,
                                                          context, a, r))
               /\ ptl_ret' = LayerReturn(ptl.layer_type, r, retriever_output)
    /\ UNCHANGED ptl
    /\ UNCHANGED notPtlVars

\* one call of retro_decoder_cross_attention on the layer
PtlRetroDecoderCrossAttention ==
    /\ ptl.status = "ok"
    /\ ~ptl_call.made
    /\ \E ns \in 1..(MaxSeq + 1), bs \in 1..MaxBatch :
         \E r \in { RetroDecoderCrossAttention(ptl, << ns, bs, 2 >>) } :
           /\ ptl_call' = [ NoPtlCall EXCEPT !.made = TRUE,
                                             !.method = "retro_decoder_cross_attention",
                                             !.norm_output = << ns, bs, 2 >> ]
           /\ ptl_trace' = r.steps
           /\ ptl_ret' = PtlResult(r.status, FALSE, NoShape, NoTensor)
    /\ UNCHANGED ptl
    /\ UNCHANGED notPtlVars

PtlNext ==
    \/ PtlForward
    \/ PtlRetroDecoderCrossAttention

\* ---------------------------------------------------------------------------
\* Specifications
\* ---------------------------------------------------------------------------
\* The components not exercised by a specification stay as constructed.
MLPIdle ==
    /\ mlp = [ m |-> Idefics2ParallelMLP_init(
                        [ input_size |-> 1, ffn_hidden_size |-> 1, output_size |-> 1,
                          gated_linear_unit |-> TRUE, add_bias_linear |-> FALSE ],
                        [ openai_gelu |-> FALSE, onnx_safe |-> FALSE, swiglu |-> TRUE,
                          squared_relu |-> FALSE, bias_gelu_fusion |-> FALSE ], 1) ]
    /\ mlp_x = NoShape
    /\ mlp_ret = NotCalled

CoreIdle ==
    /\ core = CoreAttention_init([kv_channels |-> 1, num_attention_heads |-> 1], 1)
    /\ core_call = [ query |-> NoShape, key |-> NoShape, value |-> NoShape,
                     attention_mask |-> NoMask ]
    /\ core_ret = NotCalled

AttnIdle ==
    /\ attn = <<>>
    /\ inference_params = [ max_sequence_length |-> 0, max_batch_size |-> 0,
                            sequence_len_offset |-> 0, batch_size_offset |-> 0,
                            key_value_memory_dict |-> <<>> ]
    /\ attn_ret = [ status |-> "not_called" ]
    /\ attn_calls = 0
    /\ attn_pre = <<>>
    /\ attn_track = <<>>
    /\ attn_nondecreasing = TRUE

BuildIdle ==
    /\ build_setup = [ num_layers |-> 0, vp |-> NoVirtualPipeline, world |-> 1,
                       transformer_impl |-> "local", fp8 |-> "None",
                       transformer_engine |-> FALSE ]
    /\ chunks = <<>>
    /\ noop_call = NoNoopCall
    /\ noop_ret = [ status |-> "not_called" ]

LoadIdle ==
    /\ state_dict = <<>>
    /\ load_call = NoLoadCall
    /\ load_super = NoSuperCall
    /\ load_ret = "not_called"

DropIdle ==
    /\ dp_module = [ drop_prob |-> 0, training |-> FALSE ]
    /\ dp_call = NoDropCall
    /\ dp_ret = DropPathResult("not_called", NoObject, 0)

GnlIdle == GnlInit

GltIdle == GltInit

FwdIdle ==
    /\ transformer = [ status |-> "not_constructed" ]
    /\ input_tensor = NoTensor
    /\ microbatch_count = 0
    /\ num_microbatches_in_previous_step = -1
    /\ fwd = FwdIdleFrame
    /\ fwd_log = <<>>
    /\ fwd_ret = FwdRaise("not_called")
    /\ fwd_calls = 0
    /\ fwd_inference_params = FwdNewInferenceParams
    /\ fwd_history = <<>>

\* Every earlier component as constructed.
EarlierIdle == MLPIdle /\ CoreIdle /\ AttnIdle /\ GnlIdle /\ GltIdle /\ FwdIdle

LaterIdle == BuildIdle /\ LoadIdle /\ DropIdle

FlashIdle ==
    /\ flash_module = [ causal |-> FALSE, dropout_p |-> 0, training |-> TRUE ]
    /\ flash_call = NoFlashCall
    /\ flash_kernel = NoKernelCall
    /\ flash_ret = NotCalled

PtlIdle ==
    /\ ptl = [ status |-> "none" ]
    /\ ptl_call = NoPtlCall
    /\ ptl_trace = <<>>
    /\ ptl_ret = PtlNotCalled

LastIdle == FlashIdle /\ PtlIdle

InitMLP == MLPInit /\ CoreIdle /\ AttnIdle /\ GnlIdle /\ GltIdle /\ FwdIdle /\ LaterIdle /\ LastIdle

SpecMLP == InitMLP /\ [][MLPNext]_vars

InitCore == CoreInit /\ MLPIdle /\ AttnIdle /\ GnlIdle /\ GltIdle /\ FwdIdle /\ LaterIdle /\ LastIdle

SpecCore == InitCore /\ [][CoreNext]_vars

InitAttn == AttnInit /\ MLPIdle /\ CoreIdle /\ GnlIdle /\ GltIdle /\ FwdIdle /\ LaterIdle /\ LastIdle

SpecAttn == InitAttn /\ [][AttnNext]_vars

InitKV == KVInit /\ MLPIdle /\ CoreIdle /\ GnlIdle /\ GltIdle /\ FwdIdle /\ LaterIdle /\ LastIdle

SpecKV == InitKV /\ [][KVNext]_vars

InitNumLayers == GnlInit /\ MLPIdle /\ CoreIdle /\ AttnIdle /\ GltIdle /\ FwdIdle /\ LaterIdle /\ LastIdle

SpecNumLayers == InitNumLayers /\ [][GnlNext]_vars

InitLayerType == GltInit /\ MLPIdle /\ CoreIdle /\ AttnIdle /\ GnlIdle /\ FwdIdle /\ LaterIdle /\ LastIdle

SpecLayerType == InitLayerType /\ [][GltNext]_vars

InitFwd == FwdInit /\ MLPIdle /\ CoreIdle /\ AttnIdle /\ GnlIdle /\ GltIdle /\ LaterIdle /\ LastIdle

SpecFwd == InitFwd /\ [][FwdNext]_vars

InitMicrobatch ==
    MicrobatchInit /\ MLPIdle /\ CoreIdle /\ AttnIdle /\ GnlIdle /\ GltIdle /\ LaterIdle
                   /\ LastIdle

SpecMicrobatch == InitMicrobatch /\ [][MicrobatchNext]_vars

InitBuild == BuildInit /\ EarlierIdle /\ LoadIdle /\ DropIdle /\ LastIdle

SpecBuild == InitBuild /\ [][BuildNext]_vars

InitLoad == LoadInit /\ EarlierIdle /\ BuildIdle /\ DropIdle /\ LastIdle

SpecLoad == InitLoad /\ [][LoadNext]_vars

InitDropPath == DropInit /\ EarlierIdle /\ BuildIdle /\ LoadIdle /\ LastIdle

SpecDropPath == InitDropPath /\ [][DropNext]_vars

InitFlash == FlashInit /\ EarlierIdle /\ LaterIdle /\ PtlIdle

SpecFlash == InitFlash /\ [][FlashNext]_vars

InitLayer == PtlInit /\ EarlierIdle /\ LaterIdle /\ FlashIdle

SpecLayer == InitLayer /\ [][PtlNext]_vars

\* ---------------------------------------------------------------------------
\* Properties
\* ---------------------------------------------------------------------------
ForwardReturned == fwd_ret.status = "ok"

\* The indices 0..n-1 in order.
LayerIndices(n) == [ i \in 1..n |-> i - 1 ]

\* C1: whatever the pre_process, post_process and post_norm flags and the
\* context length, a forward call that returns hands back the result of the
\* layer stack (the expanded latents after every owned layer in order),
\* final-normalized exactly when post_process and post_norm are both on, of
\* shape (n_latents, batch, text_hidden_size).
C1_ForwardReturnsStackResult ==
    ForwardReturned =>
       /\ fwd_ret.value.src = "latents"
       /\ fwd_ret.value.layers = LayerIndices(transformer.num_layers)
       /\ fwd_ret.value.normed = (transformer.post_process /\ transformer.post_norm)
       /\ fwd_ret.value.shape = << transformer.n_latents, fwd.hidden_states.shape[1],
                                   transformer.text_hidden_size >>

PlainPath == transformer.status = "ok" /\ transformer.recompute_granularity # "full"

\* The mask forward builds from a 2-d mask [b, L].
ExtendedMask(b, L) ==
    IF transformer.use_flash_attn THEN << b, L + transformer.n_latents >>
    ELSE << b, 1, transformer.n_latents, L + transformer.n_latents >>

\* C2: on the plain path the layer calls of one forward are the owned layers in
\* index order 0, 1, ..., each at most once and all of them once the call
\* returns; the first gets the expanded latents, each later one the output of
\* the one before; every one gets the same projected context and the same
\* extended attention mask.
C2_PlainLoopSequential ==
    PlainPath =>
       /\ Len(fwd_log) <= transformer.num_layers
       /\ \A i \in 1..Len(fwd_log) :
             /\ fwd_log[i].index = i - 1
             /\ ~fwd_log[i].checkpointed
             /\ fwd_log[i].latents =
                   IF i = 1
                   THEN Tensor(<< transformer.n_latents, fwd_log[1].latents.shape[2],
                                  transformer.text_hidden_size >>, "latents")
                   ELSE fwd_log[i - 1].output
             /\ fwd_log[i].context = fwd_log[1].context
             /\ fwd_log[i].context.src = "context"
             /\ fwd_log[i].context.layers = <<>>
             /\ fwd_log[i].attention_mask = fwd_log[1].attention_mask
             /\ i < Len(fwd_log) => fwd_log[i].status = "ok"
       /\ fwd.pc = "plain" =>
             /\ Len(fwd_log) = fwd.index
             /\ fwd.attention_mask = ExtendedMask(fwd.mask[1], fwd.mask[2])
             /\ \A i \in 1..Len(fwd_log) :
                   /\ fwd_log[i].context = fwd.context
                   /\ fwd_log[i].attention_mask = fwd.attention_mask
             /\ fwd.compressed_context =
                   IF fwd_log = <<>> THEN fwd.latents ELSE fwd_log[Len(fwd_log)].output
       /\ ForwardReturned =>
             /\ Len(fwd_log) = transformer.num_layers
             /\ \A i \in 1..Len(fwd_log) : fwd_log[i].status = "ok"

C2_Witness ==
    /\ PlainPath
    /\ ForwardReturned
    /\ transformer.num_layers = 2
    /\ Len(fwd_log) = 2
    /\ fwd_log[2].latents = fwd_log[1].output
    /\ fwd_log[1].output.layers = << 0 >>

\* ---------------------------------------------------------------------------
\* The content of cell (r, c), 0-based, of a memory of the cache.
Cell(mem, r, c) == mem[r + 1][c + 1]

KVDict == inference_params.key_value_memory_dict

CacheRows == 0..(inference_params.max_sequence_length - 1)

CacheCols == 0..(inference_params.max_batch_size - 1)

\* The content of a cell before the last call (torch.empty content when the
\* entry did not exist yet).
PreKey(l, r, c) == IF attn_pre[l].id = 0 THEN 0 ELSE Cell(attn_pre[l].key, r, c)

PreValue(l, r, c) == IF attn_pre[l].id = 0 THEN 0 ELSE Cell(attn_pre[l].value, r, c)

CachedCallMade == attn_ret.status # "not_called" /\ attn_ret.info.cached

\* No cell of any existing memory differs from its content before the last call.
NoCellWritten ==
    \A l \in AttnLayerNumbers :
       KVDict[l].id # 0 =>
          \A r \in CacheRows, c \in CacheCols :
             /\ Cell(KVDict[l].key, r, c) = PreKey(l, r, c)
             /\ Cell(KVDict[l].value, r, c) = PreValue(l, r, c)

CallOverflows ==
    \/ attn_ret.info.batch_end > inference_params.max_batch_size
    \/ attn_ret.info.sequence_end > inference_params.max_sequence_length

\* C3: a cached call whose batch end or sequence end exceeds the allocated extents
\* fails with an AssertionError before any cell of the key or value memory is
\* written; a call that writes writes exactly the rows [sequence_start,
\* sequence_end) and columns [batch_start, batch_end), all inside the extents.
C3_CacheBoundsFailFast ==
    CachedCallMade =>
       LET i == attn_ret.info
       IN  /\ CallOverflows =>
                 /\ attn_ret.status = "AssertionError"
                 /\ ~attn_ret.wrote
                 /\ NoCellWritten
           /\ attn_ret.wrote =>
                 /\ i.rows = i.sequence_start..(i.sequence_end - 1)
                 /\ i.cols = i.batch_start..(i.batch_end - 1)
                 /\ i.rows \subseteq CacheRows
                 /\ i.cols \subseteq CacheCols

C3_Witness ==
    /\ CachedCallMade
    /\ attn_ret.info.sequence_end > inference_params.max_sequence_length
    /\ attn_ret.info.batch_end <= inference_params.max_batch_size
    /\ attn_ret.status = "AssertionError"

\* The frame of a successful cached call on layer l: exactly the cells of rows
\* [sequence_start, sequence_end) and columns [batch_start, batch_end) of that
\* layer's key and value memory now hold this call's data, every other cell of
\* every layer is as before, and the effective keys are rows [0, sequence_end)
\* of the batch range.
CacheWriteFrame ==
    (CachedCallMade /\ attn_ret.status = "ok") =>
       LET i == attn_ret.info
       IN  /\ \A l \in AttnLayerNumbers :
                 KVDict[l].id # 0 =>
                    \A r \in CacheRows, c \in CacheCols :
                       LET hit == /\ l = i.layer_number
                                  /\ i.sequence_start <= r /\ r < i.sequence_end
                                  /\ i.batch_start <= c /\ c < i.batch_end
                       IN  /\ Cell(KVDict[l].key, r, c) =
                                 IF hit THEN attn_ret.id ELSE PreKey(l, r, c)
                           /\ Cell(KVDict[l].value, r, c) =
                                 IF hit THEN attn_ret.id ELSE PreValue(l, r, c)
           /\ KVDict[i.layer_number].id # 0
           /\ i.effective_key =
                 << i.sequence_end, i.batch_end - i.batch_start,
                    KVDict[i.layer_number].shape[3], KVDict[i.layer_number].shape[4] >>

\* Every entry an earlier step wrote in the layer's memory is still there and
\* lies in the range the last call read back.
EarlierEntriesReadBack ==
    LET i == attn_ret.info
    IN  \A e \in attn_track[i.layer_number].cells :
           /\ e[1] < i.sequence_end
           /\ i.batch_start <= e[2] /\ e[2] < i.batch_end
           /\ Cell(KVDict[i.layer_number].key, e[1], e[2]) = e[3]
           /\ Cell(KVDict[i.layer_number].value, e[1], e[2]) = e[3]

\* C4 as stated: the write frame of a successful cached call, and over any
\* sequence of steps with non-decreasing offsets the entries written by earlier
\* steps are still read back by later steps.
C4_Original ==
    /\ CacheWriteFrame
    /\ (CachedCallMade /\ attn_ret.status = "ok" /\ attn_nondecreasing)
          => EarlierEntriesReadBack

\* C4 (amended): the write frame of a successful cached call, and over any
\* sequence of steps of one layer that keep the same batch range and start each
\* write at or past the previous sequence end, the entries written by earlier
\* steps are still read back unchanged by later steps.
C4_CacheWriteReadBack ==
    /\ CacheWriteFrame
    /\ (CachedCallMade /\ attn_ret.status = "ok"
          /\ attn_track[attn_ret.info.layer_number].appending)
          => EarlierEntriesReadBack

C4_Witness ==
    /\ CachedCallMade
    /\ attn_ret.status = "ok"
    /\ attn_track[attn_ret.info.layer_number].appending
    /\ attn_track[attn_ret.info.layer_number].n = 2
    /\ attn_ret.info.sequence_start > 0

\* C5: the key/value pair of a layer number is allocated at most once: an entry
\* present before a call is the same pair (same allocation, same shape) after
\* it, a new entry appears only for the layer of a cached call, and every entry
\* has shape (max_sequence_length, max_batch_size,
\* num_query_groups_per_partition, head_dim).
C5_AllocateOnce ==
    \A l \in AttnLayerNumbers :
       /\ attn_pre[l].id # 0 =>
             /\ KVDict[l].id = attn_pre[l].id
             /\ KVDict[l].shape = attn_pre[l].shape
       /\ KVDict[l].id # 0 =>
             KVDict[l].shape =
                << inference_params.max_sequence_length,
                   inference_params.max_batch_size,
                   attn[l].num_query_groups_per_partition,
                   attn[l].hidden_size_per_attention_head_query >>
       /\ (attn_pre[l].id = 0 /\ KVDict[l].id # 0) =>
             (CachedCallMade /\ attn_ret.info.layer_number = l)

C5_Witness ==
    /\ CachedCallMade
    /\ attn_pre[attn_ret.info.layer_number].id # 0
    /\ attn_ret.id > attn_pre[attn_ret.info.layer_number].id

CoreWellFormed ==
    /\ core_ret.status # "not_called"
    /\ core_call.key[3] = core_call.query[3]
    /\ core_call.value = core_call.key

\* C6: CoreAttention.forward raises the mask-shape ValueError exactly when the
\* supplied mask's shape differs from (batch, 1, query_len, key_len); with
\* exactly that shape the call returns a context of shape
\* (query_len, batch, hidden_size_per_partition).
C6_MaskShapeCheck ==
    (CoreWellFormed /\ core_call.attention_mask # NoMask) =>
       LET expected == << core_call.query[2], 1, core_call.query[1], core_call.key[1] >>
       IN  /\ (core_ret.status = "ValueError") <=> (core_call.attention_mask # expected)
           /\ core_call.attention_mask = expected =>
                 core_ret = Ok(<< core_call.query[1], core_call.query[2],
                                  core.hidden_size_per_partition >>)

C6_Witness ==
    /\ CoreWellFormed
    /\ core_call.attention_mask =
          << core_call.query[2] + 1, 1, core_call.query[1], core_call.key[1] >>
    /\ core_ret.status = "ValueError"

\* C7: the cross-attention forms its keys/values from the concatenation of
\* context and latents (key length L + n_latents) and its queries from the
\* latents alone, and a successful call returns shape
\* (n_latents, batch, text_hidden_size) whatever the context length L is.
C7_OutputLengthIsLatentCount ==
    attn_ret.status # "not_called" =>
       /\ attn_ret.info.key_len = attn_ret.context[1] + attn_ret.latents[1]
       /\ attn_ret.info.query_len = attn_ret.latents[1]
       /\ attn_ret.status = "ok" =>
             attn_ret.shape = << attn_ret.latents[1], attn_ret.latents[2],
                                 attn[1].text_hidden_size >>

C7_Witness ==
    /\ attn_ret.status = "ok"
    /\ attn_ret.context[1] > attn_ret.latents[1]
    /\ attn_ret.shape[1] = attn_ret.latents[1]

\* C8: for an input of shape (S, B, input_size) the MLP returns shape
\* (S, B, output_size) whichever nonlinearity branch is selected and whether or
\* not gated_linear_unit is on (the fused bias+GELU path left aside).
C8_MLPShapeLaw ==
    (mlp_ret.status # "not_called" /\ Last(mlp_x) = mlp.config.input_size
       /\ ~mlp.m.bias_gelu_fusion)
       => mlp_ret = Ok(<< mlp_x[1], mlp_x[2], mlp.config.output_size >>)

GnlPipelined ==
    /\ gnl_call.status = "called"
    /\ gnl_call.model_type # "encoder_and_decoder"
    /\ gnl_call.world > 1

GnlDivides ==
    gnl_call.args.num_layers % gnl_call.args.transformer_pipeline_model_parallel_size = 0

GnlEvenShare ==
    gnl_call.args.num_layers \div gnl_call.args.transformer_pipeline_model_parallel_size

\* C9 as stated: for a non-encoder-and-decoder model on more than one pipeline
\* stage every stage gets exactly num_layers /
\* transformer_pipeline_model_parallel_size layers when the division is exact,
\* and the call fails when it is not.
C9_Original ==
    GnlPipelined =>
       /\ GnlDivides => gnl_ret = GnlOk(GnlEvenShare)
       /\ ~GnlDivides => gnl_ret.status = "AssertionError"

\* C9 (amended): for a model that is neither encoder-and-decoder nor
\* retro-encoder, on more than one pipeline stage and with num_layers equal to
\* encoder_num_layers, the call fails with an AssertionError exactly when
\* num_layers is not a multiple of transformer_pipeline_model_parallel_size;
\* otherwise the stage gets exactly num_layers /
\* transformer_pipeline_model_parallel_size layers, except pipeline rank 0 of a
\* standalone embedding stage, which gets 0.
C9_EvenSplitOrFail ==
    (GnlPipelined /\ gnl_call.model_type # "retro_encoder"
       /\ gnl_call.args.num_layers = gnl_call.args.encoder_num_layers) =>
       /\ GnlDivides =>
             gnl_ret = GnlOk(IF gnl_call.args.standalone_embedding_stage
                                /\ gnl_call.rank = 0
                             THEN 0 ELSE GnlEvenShare)
       /\ ~GnlDivides => gnl_ret.status = "AssertionError"

C9_Witness ==
    /\ GnlPipelined
    /\ gnl_call.model_type = "encoder_or_decoder"
    /\ gnl_call.args.num_layers = 8
    /\ gnl_call.args.encoder_num_layers = 8
    /\ gnl_call.args.transformer_pipeline_model_parallel_size = 2
    /\ gnl_call.args.standalone_embedding_stage
    /\ gnl_call.rank = 1
    /\ gnl_ret = GnlOk(4)

SeqToSet(seq) == { seq[i] : i \in 1..Len(seq) }

\* C10: for a retro-decoder model the retro layer numbers are every third index
\* from 6 (num_layers <= 15) or 9 (otherwise) up to and including num_layers, in
\* increasing order; with retrieval enabled the first of them is tagged
\* retro_decoder_with_retriever, the others retro_decoder, and every layer
\* number outside the set gets the default layer type.
C10_RetroLayerNumbersAndTypes ==
    (glt_call.status = "called" /\ glt_call.model_type = "retro_decoder") =>
       LET start == IF glt_call.config_num_layers <= 15 THEN 6 ELSE 9
           nums  == SeqToSet(retro_layer_numbers)
           n     == glt_call.layer_number
       IN  /\ nums = { k \in start..glt_call.args_num_layers : (k - start) % 3 = 0 }
           /\ \A i \in 1..(Len(retro_layer_numbers) - 1) :
                 retro_layer_numbers[i] < retro_layer_numbers[i + 1]
           /\ (glt_call.config_num_layers = 12 /\ glt_call.args_num_layers = 12)
                 => retro_layer_numbers = << 6, 9, 12 >>
           /\ (glt_call.config_num_layers = 20 /\ glt_call.args_num_layers = 20)
                 => retro_layer_numbers = << 9, 12, 15, 18 >>
           /\ glt_call.retro_add_retriever =>
                 glt_ret = IF n \notin nums THEN glt_call.default_layer_type
                           ELSE IF n = start THEN "retro_decoder_with_retriever"
                           ELSE "retro_decoder"
           /\ ~glt_call.retro_add_retriever => glt_ret = glt_call.default_layer_type

C10_Witness ==
    /\ glt_call.status = "called"
    /\ glt_call.model_type = "retro_decoder"
    /\ glt_call.retro_add_retriever
    /\ glt_call.config_num_layers = 20
    /\ glt_call.args_num_layers = 20
    /\ glt_call.layer_number = 12
    /\ glt_ret = "retro_decoder"

\* ---------------------------------------------------------------------------
\* Construction
\* ---------------------------------------------------------------------------
\* The layers of one model chunk: config.num_layers, divided by the virtual
\* pipeline size when there is one.
LocalLayerCount(su) ==
    IF su.vp # NoVirtualPipeline THEN su.num_layers \div su.vp ELSE su.num_layers

\* The (pipeline rank, chunk) pairs constructed so far.
BuiltChunks ==
    { p \in (DOMAIN chunks) \X (1..MaxChunks) : p[2] <= Len(chunks[p[1]]) }

ChunkOk(p) == chunks[p[1]][p[2]].status = "ok"

\* C11: a successfully constructed stack with a local layer count of 0 holds
\* exactly one layer, a NoopTransformerLayer, and has num_layers = 1; with a
\* positive count it holds exactly that many ParallelTransformerLayers and no
\* no-op layer; the forward of a NoopTransformerLayer returns a tensor with the
\* contents of hidden_states in a storage of its own, whatever the other
\* arguments are.
C11_NoopStack ==
    /\ \A p \in BuiltChunks :
          ChunkOk(p) =>
             LET t == chunks[p[1]][p[2]]
                 n == LocalLayerCount(build_setup)
             IN  IF n = 0
                 THEN /\ t.num_layers = 1
                      /\ Len(t.layers) = 1
                      /\ t.layers[1].kind = "NoopTransformerLayer"
                 ELSE /\ t.num_layers = n
                      /\ Len(t.layers) = n
                      /\ \A i \in 1..n : t.layers[i].kind = "ParallelTransformerLayer"
    /\ noop_call.made =>
          /\ noop_ret.status = "ok"
          /\ noop_ret.tensor.value = noop_call.hidden_states.value
          /\ noop_ret.tensor.storage # noop_call.hidden_states.storage

C11_Witness ==
    /\ LocalLayerCount(build_setup) = 0
    /\ \E p \in BuiltChunks : ChunkOk(p)
    /\ noop_call.made
    /\ noop_call.attention_mask # NoObject
    /\ noop_call.encoder_output # NoObject
    /\ noop_ret.status = "ok"

\* The zero-based indices of the layers of a constructed chunk.
ChunkLayerIndices(p) ==
    [ i \in 1..Len(chunks[p[1]][p[2]].layers) |->
        chunks[p[1]][p[2]].layers[i].layer_number - 1 ]

\* Every pipeline rank has constructed all of its chunks.
AllChunksBuilt ==
    \A rank \in DOMAIN chunks : Len(chunks[rank]) = ChunksPerRank(build_setup)

\* The pipeline of the constructor's comment: `layers` layers over `stages`
\* stages and `size` model chunks per stage.
StripedSetup(layers, stages, size) ==
    /\ build_setup.num_layers = layers
    /\ build_setup.world = stages
    /\ build_setup.vp = size

\* C17: with virtual pipelining the chunks own the layers of the interleaved
\* striping: for 8 layers, 2 stages and 4 chunks stage 0 owns [0] [2] [4] [6]
\* and stage 1 owns [1] [3] [5] [7]; for 8 layers, 2 stages and 2 chunks
\* stage 0 owns [0, 1] [4, 5] and stage 1 owns [2, 3] [6, 7]; in general every
\* chunk is constructed, the layers of distinct (stage, chunk) pairs are
\* disjoint, and together they are the layers 1..num_layers.
C17_InterleavedStriping ==
    (/\ build_setup.vp # NoVirtualPipeline
     /\ build_setup.num_layers >= 1
     /\ build_setup.num_layers % (build_setup.world * build_setup.vp) = 0
     /\ build_setup.transformer_impl = "local"
     /\ build_setup.fp8 = "None") =>
       /\ \A p \in BuiltChunks : ChunkOk(p)
       /\ StripedSetup(8, 2, 4) =>
             \A p \in BuiltChunks : ChunkLayerIndices(p) = << 2 * (p[2] - 1) + p[1] >>
       /\ StripedSetup(8, 2, 2) =>
             \A p \in BuiltChunks :
                ChunkLayerIndices(p) = << 4 * (p[2] - 1) + 2 * p[1],
                                          4 * (p[2] - 1) + 2 * p[1] + 1 >>
       /\ \A p, q \in BuiltChunks :
             p # q => SeqToSet(ChunkLayerIndices(p)) \cap SeqToSet(ChunkLayerIndices(q)) = {}
       /\ AllChunksBuilt =>
             UNION { SeqToSet(ChunkLayerIndices(p)) : p \in BuiltChunks }
                = 0..(build_setup.num_layers - 1)

\* C19: a transformer with at least one local layer is constructed only with
\* the 'local' implementation and without FP8: FP8 without the
\* engine-accelerated implementation fails an assertion, an FP8 name that is
\* neither e4m3 nor hybrid fails, and with another implementation the first
\* layer that build_layer is asked for fails an assertion.
C19_LocalWithoutFp8Only ==
    \A p \in BuiltChunks :
       LET status == chunks[p[1]][p[2]].status
           impl == build_setup.transformer_impl
           fp8 == build_setup.fp8
           engine == impl = "transformer_engine" /\ build_setup.transformer_engine
       IN  /\ (status = "ok" /\ LocalLayerCount(build_setup) >= 1) =>
                 (impl = "local" /\ fp8 = "None")
           /\ (fp8 # "None" /\ impl # "transformer_engine") => status = "AssertionError"
           /\ fp8 \notin {"None", "e4m3", "hybrid"} => status # "ok"
           /\ (engine /\ fp8 \notin {"None", "e4m3", "hybrid"}) => status = "ValueError"
           /\ (engine /\ fp8 \in {"None", "e4m3", "hybrid"}
                      /\ LocalLayerCount(build_setup) >= 1) => status = "AssertionError"

\* The engine-accelerated implementation with a valid FP8 recipe and a layer
\* to build.
C19_Witness ==
    /\ build_setup.transformer_impl = "transformer_engine"
    /\ build_setup.transformer_engine
    /\ build_setup.fp8 = "hybrid"
    /\ build_setup.num_layers = 2
    /\ \E p \in BuiltChunks : chunks[p[1]][p[2]].status = "AssertionError"

\* ---------------------------------------------------------------------------
\* load_state_dict
\* ---------------------------------------------------------------------------
\* The key with every occurrence of 'layernorm' turned into 'norm': the key
\* without the "layer" segments that a "norm" segment follows.
RECURSIVE WithoutLayerBeforeNorm(_, _)
WithoutLayerBeforeNorm(key, i) ==
    IF i > Len(key) THEN <<>>
    ELSE IF key[i] = "layer" /\ i < Len(key) /\ key[i + 1] = "norm"
    THEN WithoutLayerBeforeNorm(key, i + 1)
    ELSE << key[i] >> \o WithoutLayerBeforeNorm(key, i + 1)

ReplacedKey(key) == WithoutLayerBeforeNorm(key, 1)

\* Entry i of the saved dictionary is the last one stored under its new key.
LastUnderNewKey(d, i) ==
    \A j \in (i + 1)..Len(d) : ReplacedKey(d[j][1]) # ReplacedKey(d[i][1])

\* What the standard loading is handed when keys are renamed: the entries in
\* `kept` under their new keys with their own values, and no other key.
RenamedEntries(d, e, kept) ==
    /\ DictKeys(e) = { ReplacedKey(d[i][1]) : i \in 1..Len(d) }
    /\ Len(e) = Cardinality(DictKeys(e))
    /\ \A i \in kept : \E j \in 1..Len(e) : e[j] = << ReplacedKey(d[i][1]), d[i][2] >>

\* The engine-accelerated implementation hands the entries over as they are;
\* the caller's dictionary is as it was.
LoadPassThrough ==
    /\ state_dict = load_call.state_dict
    /\ load_call.transformer_impl = "transformer_engine" =>
          load_super.state_dict = load_call.state_dict

\* C12 as stated: every saved entry arrives under its renamed key with its
\* own value.
C12_Original ==
    load_call.made =>
       /\ LoadPassThrough
       /\ load_call.transformer_impl # "transformer_engine" =>
             RenamedEntries(load_call.state_dict, load_super.state_dict,
                            1..Len(load_call.state_dict))

\* C12: without the engine-accelerated implementation the standard loading is
\* handed exactly the saved keys with every 'layernorm' replaced by 'norm'; an
\* entry keeps its value unless a later entry of the saved dictionary is
\* renamed to the same key, in which case the later value is the one handed
\* over; with the engine-accelerated implementation the entries are passed
\* through unchanged; the caller's dictionary is never mutated.
C12_RenameKeys ==
    load_call.made =>
       /\ LoadPassThrough
       /\ load_call.transformer_impl # "transformer_engine" =>
             RenamedEntries(load_call.state_dict, load_super.state_dict,
                            { i \in 1..Len(load_call.state_dict) :
                                 LastUnderNewKey(load_call.state_dict, i) })

\* A key with two occurrences of 'layernorm' next to a key that is renamed.
C12_Witness ==
    /\ load_call.made
    /\ load_call.transformer_impl = "local"
    /\ Len(load_call.state_dict) = 2
    /\ load_call.state_dict[1][1] = << "layer", "norm", "layer", "norm" >>
    /\ load_call.state_dict[2][1] = << "layer", "norm" >>
    /\ load_super.state_dict = << << << "norm", "norm" >>, "value1" >>,
                                  << << "norm" >>, "value2" >> >>

\* The keys handed to the standard loading are not exactly the module's.
LoadedKeysDiffer == DictKeys(load_super.state_dict) # ModuleKeys

\* C20: the standard loading is strict only when
\* use_mistral_rotary_position_embeddings is set, and then exactly when the
\* caller's strict argument (True when left out) says so; without the flag
\* the loading is permissive whatever the caller passed, so that missing or
\* unexpected keys fail the call only under the flag with strict true.
C20_StrictOnlyWithFlag ==
    load_call.made =>
       /\ load_super.strict =
             (load_call.use_mistral_rotary_position_embeddings /\ load_call.strict.strict)
       /\ ~load_call.strict.given => load_call.strict.strict
       /\ (load_ret = "RuntimeError") =
             /\ load_call.use_mistral_rotary_position_embeddings
             /\ load_call.strict.strict
             /\ LoadedKeysDiffer

\* A caller who asks for strict loading of keys that do not match, without
\* the flag: the call goes through.
C20_Witness ==
    /\ load_call.made
    /\ ~load_call.use_mistral_rotary_position_embeddings
    /\ load_call.strict.given
    /\ load_call.strict.strict
    /\ LoadedKeysDiffer
    /\ load_ret = "ok"

\* ---------------------------------------------------------------------------
\* DropPath
\* ---------------------------------------------------------------------------
\* C13: with drop probability 0 or in evaluation mode, DropPath.forward
\* returns its input itself (the same values, no rescaling) and draws no
\* random number, for every input shape and every drop probability.
C13_DropPathIdentity ==
    (dp_call.made /\ (dp_module.drop_prob = 0 \/ ~dp_module.training)) =>
       /\ dp_ret.status = "ok"
       /\ dp_ret.tensor = dp_call.hidden_state
       /\ dp_ret.draws = 0

\* Evaluation mode with a positive drop probability on a nonzero input.
C13_Witness ==
    /\ dp_call.made
    /\ ~dp_module.training
    /\ dp_module.drop_prob = 50
    /\ Len(dp_call.hidden_state.value.shape) = 3
    /\ dp_call.hidden_state.value.data[1] = Finite(3)
    /\ dp_ret.status = "ok"

\* ---------------------------------------------------------------------------
\* Activation recomputation
\* ---------------------------------------------------------------------------
\* A constructed stack of real layers under full recomputation with `method`.
FullRecompute(method) ==
    /\ transformer.status = "ok"
    /\ transformer.layers[1].kind = "ParallelTransformerLayer"
    /\ transformer.recompute_granularity = "full"
    /\ transformer.recompute_method = method

\* The layer calls made so far are calls of the layers 0, 1, 2, ... in turn,
\* each on the output of the one before it.
LogInOrder ==
    \A i \in 1..Len(fwd_log) :
       /\ fwd_log[i].index = i - 1
       /\ fwd_log[i].index < transformer.num_layers
       /\ i > 1 => fwd_log[i].latents = fwd_log[i - 1].output

\* C14: under the 'uniform' method with recompute_num_layers >= 1, whether or
\* not it divides num_layers, the layers run in consecutive checkpointed
\* blocks of recompute_num_layers, each layer once and in increasing order,
\* and no index >= num_layers is requested from the stack (no IndexError).
C14_UniformBlocks ==
    (FullRecompute("uniform") /\ transformer.recompute_num_layers >= 1) =>
       /\ fwd_ret.status # "IndexError"
       /\ LogInOrder
       /\ \A i \in 1..Len(fwd_log) : fwd_log[i].checkpointed
       /\ fwd.pc = "uniform" => fwd.index % transformer.recompute_num_layers = 0
       /\ ForwardReturned => Len(fwd_log) = transformer.num_layers

\* C15: under the 'block' method exactly the layers with index below
\* recompute_num_layers run inside a checkpointed call of their own, the
\* others run without checkpointing; the layers run in increasing index
\* order, each on the output of the one before it, and a call that returns
\* has run each of the num_layers layers exactly once.
C15_BlockCheckpointsFirstLayers ==
    FullRecompute("block") =>
       /\ LogInOrder
       /\ \A i \in 1..Len(fwd_log) :
             fwd_log[i].checkpointed =
                (fwd_log[i].index < transformer.recompute_num_layers)
       /\ Len(fwd_log) >= 1 => fwd_log[1].latents.layers = <<>>
       /\ fwd.pc = "block" => Len(fwd_log) = fwd.index
       /\ ForwardReturned =>
             /\ Len(fwd_log) = transformer.num_layers
             /\ \A i \in 1..Len(fwd_log) : fwd_log[i].status = "ok"

\* Two layers, the first checkpointed and the second not, and a result.
C15_Witness ==
    /\ FullRecompute("block")
    /\ transformer.num_layers = 2
    /\ transformer.recompute_num_layers = 1
    /\ ForwardReturned
    /\ Len(fwd_log) = 2
    /\ fwd_log[1].checkpointed
    /\ ~fwd_log[2].checkpointed
    /\ fwd_log[2].latents = fwd_log[1].output

\* C18: under full recomputation with a method other than 'uniform' and
\* 'block' a forward call runs no layer of the stack and returns nothing: it
\* raises, and with arguments that pass the checks made before the layers
\* the error is the ValueError of _checkpointed_forward.
C18_InvalidMethodRaises ==
    (/\ transformer.status = "ok"
     /\ transformer.recompute_granularity = "full"
     /\ transformer.recompute_method \notin {"uniform", "block"}
     /\ fwd_calls > 0) =>
       /\ fwd_log = <<>>
       /\ fwd.pc = "idle"
       /\ fwd_ret.status \in {"ValueError", "AssertionError", "AttributeError",
                              "RuntimeError"}
       /\ fwd_ret.value = NoTensor
       /\ (/\ ~fwd_history[Len(fwd_history)].inference
           /\ transformer.pre_process
           /\ transformer.modality_projection.swiglu) => fwd_ret.status = "ValueError"

C18_Witness ==
    /\ transformer.status = "ok"
    /\ transformer.recompute_granularity = "full"
    /\ transformer.recompute_method = "None"
    /\ transformer.layers[1].kind = "ParallelTransformerLayer"
    /\ fwd_calls = 1
    /\ fwd_ret.status = "ValueError"

\* ---------------------------------------------------------------------------
\* The microbatch counter
\* ---------------------------------------------------------------------------
\* A call that advances the counter: it ran to its end with gradients enabled
\* in training mode.
TrainingCall(h) == h.completed /\ h.grad_enabled /\ h.training

\* microbatch_count and num_microbatches_in_previous_step after the first i
\* calls, by the rule of the claim.
RECURSIVE CounterAfter(_)
CounterAfter(i) ==
    IF i = 0 THEN [ count |-> 0, previous |-> -1 ]
    ELSE LET e == CounterAfter(i - 1)
             h == fwd_history[i]
         IN  IF ~h.counted THEN e
             ELSE [ count |-> (IF e.previous # h.nmb THEN 0 ELSE e.count)
                              + (IF TrainingCall(h) THEN 1 ELSE 0),
                    previous |-> h.nmb ]

\* The counter call i starts with, after the reset.
CounterAtStart(i) ==
    IF CounterAfter(i - 1).previous # fwd_history[i].nmb THEN 0
    ELSE CounterAfter(i - 1).count

\* The training calls among the first i calls.
TrainingCallsBefore(i) ==
    Cardinality({ j \in 1..(i - 1) : TrainingCall(fwd_history[j]) })

ConstantMicrobatches ==
    \A i, j \in 1..Len(fwd_history) : fwd_history[i].nmb = fwd_history[j].nmb

\* C16: over any sequence of forward calls microbatch_count is reset to 0 at
\* the start of a call whose get_num_microbatches() differs from the one the
\* previous call recorded, grows by exactly 1 at the end of a call made with
\* gradients enabled in training mode, and does not change otherwise; the
\* is-first-microbatch flag of a call is (counter % microbatches = 0), so
\* that with a constant count M it is set exactly on the calls that follow
\* 0, M, 2M, ... training calls, and evaluation calls do not advance it.
C16_MicrobatchCounter ==
    /\ microbatch_count = CounterAfter(Len(fwd_history)).count
    /\ num_microbatches_in_previous_step = CounterAfter(Len(fwd_history)).previous
    /\ \A i \in 1..Len(fwd_history) :
          fwd_history[i].counted =>
             fwd_history[i].is_first_microbatch =
                (CounterAtStart(i) % fwd_history[i].nmb = 0)
    /\ ConstantMicrobatches =>
          /\ microbatch_count = TrainingCallsBefore(Len(fwd_history) + 1)
          /\ \A i \in 1..Len(fwd_history) :
                fwd_history[i].counted =>
                   fwd_history[i].is_first_microbatch =
                      (TrainingCallsBefore(i) % fwd_history[i].nmb = 0)

\* Two microbatches per step: a training call, an evaluation call and two
\* more training calls; the flag is set on the first and the last.
C16_Witness ==
    /\ Len(fwd_history) = 4
    /\ \A i \in 1..4 : fwd_history[i].nmb = 2 /\ fwd_history[i].completed
    /\ TrainingCall(fwd_history[1])
    /\ ~fwd_history[2].training
    /\ TrainingCall(fwd_history[3])
    /\ TrainingCall(fwd_history[4])
    /\ fwd_history[1].is_first_microbatch
    /\ ~fwd_history[2].is_first_microbatch
    /\ ~fwd_history[3].is_first_microbatch
    /\ fwd_history[4].is_first_microbatch
    /\ microbatch_count = 3

\* ---------------------------------------------------------------------------
\* C21: FlashSelfAttention.forward calls the fused kernel with causal=False
\* ---------------------------------------------------------------------------
FlashKernelReached == flash_call.made /\ flash_call.half /\ flash_call.is_cuda

\* C21: every forward call that passes the two input assertions invokes the
\* fused kernel, and every invocation passes causal=False, whatever the
\* configured causal flag, the mode and the query/key lengths are; the dropout
\* probability passed is the configured one in training mode and 0 in
\* evaluation mode.
C21_KernelNeverCausal ==
    /\ FlashKernelReached <=> flash_kernel.invoked
    /\ flash_kernel.invoked =>
         /\ flash_kernel.causal = FALSE
         /\ flash_kernel.dropout_p =
              IF flash_call.training THEN flash_module.dropout_p ELSE 0

\* a training call on a module configured causal with dropout, where the
\* computed causal flag is set
C21_Witness ==
    /\ flash_kernel.invoked
    /\ flash_call.training
    /\ flash_module.causal
    /\ flash_kernel.is_causal
    /\ flash_module.dropout_p > 0
    /\ flash_kernel.dropout_p = flash_module.dropout_p
    /\ flash_call.attention_mask # NoMask

\* ---------------------------------------------------------------------------
\* C22: what ParallelTransformerLayer.forward returns, by layer type
\* ---------------------------------------------------------------------------
LayerForwardReturned ==
    ptl_call.made /\ ptl_call.method = "forward" /\ ptl_ret.status = "ok"

\* C22 as stated: a forward call that returns gives the pair (output,
\* retriever_output) exactly for the basic (encoder) and the
\* retro_decoder_with_retriever layer types.
C22_Original ==
    LayerForwardReturned =>
        (ptl_ret.pair <=> ptl.layer_type \in { "encoder",
                                               "retro_decoder_with_retriever" })

\* C22 (amended): a forward call that returns gives the pair (output,
\* retriever_output) only for the retro_decoder_with_retriever layer type; for
\* every other layer type, the basic (encoder) one included, it gives just the
\* output tensor, of the shape of the latents.
C22_PairOnlyWithRetriever ==
    LayerForwardReturned =>
        /\ ptl_ret.pair <=> ptl.layer_type = "retro_decoder_with_retriever"
        /\ ptl_ret.pair => ptl_ret.retriever_output = ptl_call.retriever_output
        /\ ptl_ret.output = ptl_call.latents

\* a basic layer returned, in a call that was given a retriever_output
C22_Witness ==
    /\ LayerForwardReturned
    /\ ptl.layer_type = "encoder"
    /\ ptl_call.retriever_output # NoTensor
    /\ ~ptl_ret.pair

\* ---------------------------------------------------------------------------
\* C23: the cross-attention procedure of the layer type inside forward
\* ---------------------------------------------------------------------------
\* the additional cross-attention procedure of a layer type, "None" for the
\* plain encoder
CrossAttentionOf(layer_type) ==
    CASE layer_type = "decoder" -> "default_decoder_cross_attention"
      [] layer_type = "retro_encoder" -> "retro_encoder_cross_attention"
      [] layer_type \in { "retro_decoder", "retro_decoder_with_retriever" } ->
             "retro_decoder_cross_attention"
      [] OTHER -> "None"

CrossAttentionNames ==
    { "default_decoder_cross_attention", "retro_encoder_cross_attention",
      "retro_decoder_cross_attention" }

StepIndices(name) == { i \in 1..Len(ptl_trace) : ptl_trace[i] = name }

\* C23: a forward call that gets as far as the MLP has invoked, between the
\* first residual update and the MLP, the cross-attention procedure of its
\* layer type and no other one; a plain encoder layer invokes none.
C23_CrossAttentionByLayerType ==
    (ptl_call.made /\ ptl_call.method = "forward" /\ StepIndices("mlp") # {}) =>
        \A name \in CrossAttentionNames :
           IF name = CrossAttentionOf(ptl.layer_type)
           THEN \E i \in StepIndices(name) :
                   /\ \A j \in StepIndices("first_residual") : j < i
                   /\ \A j \in StepIndices("mlp") : i < j
           ELSE StepIndices(name) = {}

\* ---------------------------------------------------------------------------
\* C24: the first-chunk guard of retro_decoder_cross_attention
\* ---------------------------------------------------------------------------
\* retro_decoder_cross_attention was called, on a layer that has the retro
\* attributes, with a sequence length that is not a multiple of
\* retro_chunk_length
PartialFirstChunkCall ==
    /\ ptl_call.made
    /\ ptl_call.method = "retro_decoder_cross_attention"
    /\ ptl.has_retro_attributes
    /\ ptl_call.norm_output[1] % ptl.retro_chunk_length # 0

TraceHas(name) == \E i \in 1..Len(ptl_trace) : ptl_trace[i] = name

StoppedAtGuard ==
    /\ ptl_ret.status = "Exception"
    /\ ptl_trace = << "shape", "chunks_per_sample", "first_chunk_guard" >>

FusionOnlyOnGeluBranch ==
    mlp.m.bias_gelu_fusion <=>
        /\ mlp.args.bias_gelu_fusion
        /\ ~mlp.args.openai_gelu /\ ~mlp.args.onnx_safe
        /\ ~mlp.args.swiglu /\ ~mlp.args.squared_relu

\* forward was called with an input dense_h_to_4h accepts
MLPReachedActivation ==
    mlp_ret.status # "not_called" /\ Last(mlp_x) = mlp.m.h_to_4h_in

C26_DropPathRateInRange ==
    (build_setup.transformer_impl = "local" /\ build_setup.fp8 = "None") =>
       \A p \in BuiltChunks :
          LET t == chunks[p[1]][p[2]]
          IN  /\ t.status # "IndexError"
              /\ (ChunkOk(p) /\ LocalLayerCount(build_setup) > 0) =>
                    \A i \in 1..Len(t.layers) :
                       /\ t.layers[i].layer_number \in 1..build_setup.num_layers
                       /\ t.layers[i].drop_path =
                             DropPathRatePositive(BuildFlags.drop_path,
                                                  t.layers[i].layer_number)

\* ---------------------------------------------------------------------------
\* C27: the loops of _checkpointed_forward come to an end
\* ---------------------------------------------------------------------------
\* the 'uniform' loop is about to run an iteration
UniformIterationDue ==
    fwd.pc = "uniform" /\ fwd.index < transformer.num_layers

\* C27: _checkpointed_forward terminates for every recompute_num_layers >= 0:
\* every iteration of the 'uniform' loop that is due leaves the loop counter
\* strictly larger than it found it (l += recompute_num_layers), so that the
\* counter reaches num_layers.
C27_UniformLoopAdvances ==
    UniformIterationDue =>
        fwd.index + transformer.recompute_num_layers > fwd.index

\* ---------------------------------------------------------------------------
\* C28: the forward of a stage whose stack is the single no-op layer
\* ---------------------------------------------------------------------------
NoopStage ==
    /\ transformer.status = "ok"
    /\ Len(transformer.layers) = 1
    /\ transformer.layers[1].kind = "NoopTransformerLayer"

\* C28: on a stage whose stack is the single no-op layer, the per-layer call
\* of the plain loop is accepted by NoopTransformerLayer.forward: the call of
\* the layer raises nothing and its result has the values and the shape of
\* the expanded latents it was given.
C28_NoopLayerAccepted ==
    (NoopStage /\ PlainPath) =>
        \A i \in 1..Len(fwd_log) :
           /\ fwd_log[i].status = "ok"
           /\ fwd_log[i].latents.src = "latents"
           /\ fwd_log[i].output.shape = fwd_log[i].latents.shape

\* ---------------------------------------------------------------------------
\* C29: CoreAttention.forward without a mask
\* ---------------------------------------------------------------------------
\* C29: a call of CoreAttention.forward with attention_mask = None on
\* matching query, key and value raises nothing and returns a context of
\* shape (query_len, batch, hidden_size_per_partition).
C29_NoMaskNoError ==
    (CoreWellFormed /\ core_call.attention_mask = NoMask) =>
        core_ret = Ok(<< core_call.query[1], core_call.query[2],
                         core.hidden_size_per_partition >>)

\* ---------------------------------------------------------------------------
\* C30: the layer counts of the pipeline ranks add up
\* ---------------------------------------------------------------------------
\* what _get_num_layers gives on pipeline rank r for the arguments of the call
GnlOnRank(r) ==
    GetNumLayers(gnl_call.args, gnl_call.model_type, gnl_call.is_decoder,
                 gnl_call.world, r)

\* the layers of the pipeline ranks 0..r together
RECURSIVE GnlLayersUpTo(_)
GnlLayersUpTo(r) ==
    IF r < 0 THEN 0 ELSE GnlOnRank(r).num_layers + GnlLayersUpTo(r - 1)

GnlTotalLayers ==
    IF gnl_call.model_type = "encoder_and_decoder"
    THEN gnl_call.args.encoder_num_layers + gnl_call.args.decoder_num_layers
    ELSE gnl_call.args.num_layers

\* the call was made on a pipeline of more than one stage and returned
GnlAccepted ==
    /\ gnl_call.status = "called"
    /\ gnl_call.world > 1
    /\ gnl_ret.status = "ok"

GnlCountsAddUp ==
    /\ \A r \in 0..(gnl_call.world - 1) : GnlOnRank(r).status = "ok"
    /\ GnlLayersUpTo(gnl_call.world - 1) = GnlTotalLayers
    /\ GnlOnRank(0).num_layers = 0 <=> gnl_call.args.standalone_embedding_stage

\* the ranks the encoder and the decoder are divided over
GnlRanksInEncoder ==
    IF gnl_call.args.standalone_embedding_stage
    THEN gnl_call.args.pipeline_model_parallel_split_rank - 1
    ELSE gnl_call.args.pipeline_model_parallel_split_rank

GnlNoZeroRanks ==
    IF gnl_call.model_type = "encoder_and_decoder"
    THEN /\ GnlRanksInEncoder > 0
         /\ gnl_call.args.transformer_pipeline_model_parallel_size - GnlRanksInEncoder > 0
    ELSE gnl_call.args.transformer_pipeline_model_parallel_size > 0

====
